---- MODULE Spec2Model ----
(***************************************************************************)
(* Compilation of DML exclusive constraint conflict handling               *)
(* (edb/edgeql/compiler/conflicts.py).                                     *)
(*                                                                         *)
(* The compiler functions are pure functions of a schema snapshot, a       *)
(* mutating statement and the list of statements already compiled in the   *)
(* query (ctx.env.dml_stmts).  Each function is an operator; each action   *)
(* is one call of an entry point, recording its arguments in `call` and    *)
(* its outcome in `ret`.  A behaviour of the single-call specifications    *)
(* is one call; a behaviour of the query specification compiles the        *)
(* statements of one query one after the other.                            *)
(***************************************************************************)
EXTENDS Naturals, Sequences, FiniteSets, TLC

VARIABLES
    schema,     \* ctx.env.schema: the type hierarchy and its constraints
    dml_stmts,  \* ctx.env.dml_stmts: statements already compiled in the query
    call,       \* the entry point last called, with its arguments
    ret,        \* what that call returned or raised
    emitted     \* inheritance clauses emitted over the whole query

vars == <<schema, dml_stmts, call, ret, emitted>>

(***************************************************************************)
(* Bounds                                                                  *)
(***************************************************************************)
\* the number of constraint declarations written in a schema
MaxDecls == 2

\* the statements compiled in one query
MaxStmts == 2

(***************************************************************************)
(* Generic helpers on sequences and sets                                   *)
(***************************************************************************)
Range(s) == {s[i] : i \in DOMAIN s}

RECURSIVE SetToSeqBy(_, _)
\* the elements of S in the order they have in the sequence ord
SetToSeqBy(S, ord) ==
    IF ord = <<>> THEN <<>>
    ELSE IF Head(ord) \in S THEN <<Head(ord)>> \o SetToSeqBy(S, Tail(ord))
    ELSE SetToSeqBy(S, Tail(ord))

RECURSIVE Flatten(_)
\* the concatenation of a sequence of sequences
Flatten(ss) == IF ss = <<>> THEN <<>> ELSE Head(ss) \o Flatten(Tail(ss))

\* the index of the first element of s satisfying Test, 0 when there is none
IndexOf(s, Test(_)) ==
    IF \E i \in DOMAIN s : Test(s[i])
    THEN CHOOSE i \in DOMAIN s : Test(s[i]) /\ \A j \in 1..(i - 1) : ~Test(s[j])
    ELSE 0

\* the positions of s, in order
Indices(s) == [i \in DOMAIN s |-> i]

\* all orderings of the sequence s
Perms(s) ==
    {[i \in DOMAIN s |-> s[f[i]]] :
        f \in {g \in [DOMAIN s -> DOMAIN s] : \A i, j \in DOMAIN s : g[i] = g[j] => i = j}}

(***************************************************************************)
(* The schema: object types                                                *)
(***************************************************************************)
BaseObject == "BaseObject"
UserTypes == {"C", "M", "A", "B", "V"}
Types == UserTypes \cup {BaseObject}
\* a fixed order of the types, parents before children in every hierarchy
TypeOrder == <<"BaseObject", "C", "M", "A", "B", "V">>

\* A and B are siblings under C; M is unrelated
HFlat == [t \in Types |->
    CASE t = "C" -> {BaseObject} [] t = "M" -> {BaseObject}
      [] t = "A" -> {"C"} [] t = "B" -> {"C"} [] t = "V" -> {"A"}
      [] OTHER -> {}]
\* A and B are siblings under M, which extends C
HDeep == [t \in Types |->
    CASE t = "C" -> {BaseObject} [] t = "M" -> {"C"}
      [] t = "A" -> {"M"} [] t = "B" -> {"M"} [] t = "V" -> {"B"}
      [] OTHER -> {}]
\* a linear chain C <- M <- A <- B <- V
HChain == [t \in Types |->
    CASE t = "C" -> {BaseObject} [] t = "M" -> {"C"}
      [] t = "A" -> {"M"} [] t = "B" -> {"A"} [] t = "V" -> {"B"}
      [] OTHER -> {}]
\* multiple inheritance: A and B both extend C and M
HDiamond == [t \in Types |->
    CASE t = "C" -> {BaseObject} [] t = "M" -> {BaseObject}
      [] t = "A" -> {"C", "M"} [] t = "B" -> {"C", "M"} [] t = "V" -> {"A"}
      [] OTHER -> {}]
Hierarchies == {HFlat, HDeep, HChain, HDiamond}

RECURSIVE ancestors(_, _)
\* ObjectType.get_ancestors: every proper ancestor of type t
ancestors(s, t) ==
    s.bases[t] \cup UNION {ancestors(s, b) : b \in s.bases[t]}

\* ObjectType.children: the direct subtypes of t
children(s, t) == {x \in Types : t \in s.bases[x]}

\* ObjectType.descendants: every proper subtype of t
descendants(s, t) == {x \in Types : t \in ancestors(s, x)}

\* ObjectType.is_view
is_view(s, t) == t \in s.views

(***************************************************************************)
(* The schema: pointers and exclusive constraints                          *)
(***************************************************************************)
\* the pointers every user type carries; "id" comes from BaseObject
PtrNames == {"id", "name", "tag", "tags", "full"}
PtrOrder == <<"id", "name", "tag", "tags", "full">>

\* ObjectType.get_pointers: the names of the pointers of type t
get_pointers(t) == IF t = BaseObject THEN {"id"} ELSE PtrNames

\* Pointer.get_cardinality(...).is_single()
is_single(p) == p # "tags"

\* The exclusive constraints a schema may declare.  ptr is the pointer a
\* pointer-level constraint sits on ("" for an object-level one), refs the
\* pointers its subject expression reads, fn the function the subject
\* expression applies ("" when there is no subject expression; "const"
\* for an expression that reads no pointer of the subject).
KeyInfo == [k \in {"px_id", "px_name", "px_lower", "px_tags", "px_full", "ox_pair", "ox_name", "ox_const"} |->
    CASE k = "px_id"    -> [ptr |-> "id", refs |-> <<>>, fn |-> ""]
      [] k = "px_name"  -> [ptr |-> "name", refs |-> <<>>, fn |-> ""]
      [] k = "px_lower" -> [ptr |-> "name", refs |-> <<>>, fn |-> "lower"]
      [] k = "px_tags"  -> [ptr |-> "tags", refs |-> <<>>, fn |-> ""]
      [] k = "px_full"  -> [ptr |-> "full", refs |-> <<>>, fn |-> ""]
      [] k = "ox_pair"  -> [ptr |-> "", refs |-> <<"name", "tag">>, fn |-> "tuple"]
      [] k = "ox_name"  -> [ptr |-> "", refs |-> <<"name">>, fn |-> "tuple"]
      [] k = "ox_const" -> [ptr |-> "", refs |-> <<>>, fn |-> "const"]]
Keys == DOMAIN KeyInfo
KeyOrder == <<"px_id", "px_name", "px_lower", "px_tags", "px_full", "ox_pair", "ox_name", "ox_const">>

DeclKinds == {"none", "own", "delegated"}
\* std::BaseObject declares `id` exclusive; every type inherits that
BaseDecl(t, k) == IF t = BaseObject /\ k = "px_id" THEN "own" ELSE "none"
NoDecl == [t \in Types |-> [k \in Keys |-> BaseDecl(t, k)]]

\* every way of writing at most n declarations of the constraints ks on
\* the types ts
DeclsOver(ts, ks, n) ==
    LET Cells == ts \X ks
        Chosen == {S \in SUBSET Cells : Cardinality(S) <= n}
    IN UNION {
         {[t \in Types |-> [k \in Keys |->
              IF <<t, k>> \in S THEN f[<<t, k>>] ELSE BaseDecl(t, k)]] :
            f \in [S -> {"own", "delegated"}]} : S \in Chosen}

\* std::exclusive, the abstract constraint every exclusive constraint extends
StdExclusive == [key |-> "exclusive", on |-> "std"]

\* the copy of constraint k that type t carries
Constr(k, t) == [key |-> k, on |-> t]

\* whether type t carries constraint k, declared there or inherited
HasConstr(s, k, t) ==
    \E x \in {t} \cup ancestors(s, t) : s.decl[x][k] # "none"

\* Constraint.generic: not bound to a subject
generic(s, c) == c.on = "std"

\* Constraint.get_delegated
get_delegated(s, c) == ~generic(s, c) /\ s.decl[c.on][c.key] = "delegated"

\* Constraint.get_owned: declared at this level, not merely inherited
get_owned(s, c) == ~generic(s, c) /\ s.decl[c.on][c.key] # "none"

\* Constraint.get_ancestors(...).objects(...): the copies carried by the
\* ancestors of the constraint's type, nearest first, then std::exclusive
constr_ancestors(s, c) ==
    IF generic(s, c) THEN <<>>
    ELSE SelectSeq([i \in DOMAIN TypeOrder |->
                       Constr(c.key, TypeOrder[Len(TypeOrder) + 1 - i])],
                   LAMBDA a : a.on \in ancestors(s, c.on)
                              /\ HasConstr(s, c.key, a.on))
         \o <<StdExclusive>>

\* Constraint.get_subject followed, for a pointer constraint, by
\* Pointer.get_source: the object type the constraint is attached to
subject_type(c) == c.on


\* the exclusive constraints pointer p of type t carries
\* (ptr.get_constraints filtered by issubclass(std::exclusive))
ptr_constraints(s, t, p) ==
    SelectSeq([i \in DOMAIN KeyOrder |-> Constr(KeyOrder[i], t)],
              LAMBDA c : KeyInfo[c.key].ptr = p /\ HasConstr(s, c.key, t))

\* ObjectType.get_constraints: the object-level constraints of type t
obj_constraints(s, t) ==
    SelectSeq([i \in DOMAIN KeyOrder |-> Constr(KeyOrder[i], t)],
              LAMBDA c : KeyInfo[c.key].ptr = "" /\ HasConstr(s, c.key, t))

(***************************************************************************)
(* _constr_matters                                                         *)
(***************************************************************************)
\* a slip: an inherited copy counts whenever it is not delegated itself
_constr_matters_noanc(s, c) ==
    ~generic(s, c) /\ ~get_delegated(s, c)

_constr_matters(s, c) ==
    /\ ~generic(s, c)
    /\ ~get_delegated(s, c)
    /\ \/ get_owned(s, c)
       \/ \A anc \in Range(constr_ancestors(s, c)) :
            get_delegated(s, anc) \/ generic(s, anc)

(***************************************************************************)
(* _split_constraints                                                      *)
(***************************************************************************)
\* (constr,) + constr.get_ancestors(schema).objects(schema)
constr_chain(s, c) == <<c>> \o constr_ancestors(s, c)

\* the constraints of the chain of c that matter, in chain order
matter_chain(s, c) ==
    SelectSeq(constr_chain(s, c), LAMBDA a : _constr_matters(s, a))

\* type_maps.setdefault(obj, ({}, []))
setdefault_bucket(tm, obj) ==
    IF \E i \in DOMAIN tm : tm[i].obj = obj THEN tm
    ELSE Append(tm, [obj |-> obj, map |-> <<>>, objs |-> <<>>])

\* map.setdefault(name, (p_ptr, []))
setdefault_entry(m, name, obj) ==
    IF \E j \in DOMAIN m : m[j].name = name THEN m
    ELSE Append(m, [name |-> name, ptr |-> [name |-> name, source |-> obj],
                    cs |-> <<>>])

\* a slip: the entry of the pointer is overwritten, not appended to
entry_append_overwrite(tm, obj, name, anc) ==
    [i \in DOMAIN tm |->
        IF tm[i].obj # obj THEN tm[i]
        ELSE [tm[i] EXCEPT !.map =
                 [j \in DOMAIN setdefault_entry(tm[i].map, name, obj) |->
                     IF setdefault_entry(tm[i].map, name, obj)[j].name # name
                     THEN setdefault_entry(tm[i].map, name, obj)[j]
                     ELSE [setdefault_entry(tm[i].map, name, obj)[j]
                              EXCEPT !.cs = <<anc>>]]]]

\* lines 262-264: anc is appended to the entry of pointer name in the
\* bucket of obj
entry_append(tm, obj, name, anc) ==
    [i \in DOMAIN tm |->
        IF tm[i].obj # obj THEN tm[i]
        ELSE [tm[i] EXCEPT !.map =
                 [j \in DOMAIN setdefault_entry(tm[i].map, name, obj) |->
                     IF setdefault_entry(tm[i].map, name, obj)[j].name # name
                     THEN setdefault_entry(tm[i].map, name, obj)[j]
                     ELSE [setdefault_entry(tm[i].map, name, obj)[j]
                              EXCEPT !.cs = Append(@, anc)]]]]

\* lines 258-264: file pointer constraint anc under its declaring type
add_ptr_constr(tm, name, anc) ==
    entry_append(setdefault_bucket(tm, subject_type(anc)),
                 subject_type(anc), name, anc)

\* lines 274-275: anc is appended to the object constraints of obj's bucket
objs_append(tm, obj, anc) ==
    [i \in DOMAIN tm |->
        IF tm[i].obj # obj THEN tm[i]
        ELSE [tm[i] EXCEPT !.objs = Append(@, anc)]]

\* lines 272-275: file object constraint anc under its declaring type
add_obj_constr(tm, anc) ==
    objs_append(setdefault_bucket(tm, subject_type(anc)), subject_type(anc), anc)

RECURSIVE split_ptrs(_, _)
\* the first loop, over the <<name, anc>> pairs that matter, in order
split_ptrs(tm, work) ==
    IF work = <<>> THEN tm
    ELSE split_ptrs(add_ptr_constr(tm, Head(work)[1], Head(work)[2]), Tail(work))

RECURSIVE split_objs(_, _)
\* the second loop, over the object constraints that matter, in order
split_objs(tm, work) ==
    IF work = <<>> THEN tm
    ELSE split_objs(add_obj_constr(tm, Head(work)), Tail(work))

\* the pairs <<name, anc>> of one pointer constraint that matter
named_chain(name, mc) == [n \in DOMAIN mc |-> <<name, mc[n]>>]

_split_constraints(s, obj_constrs, constrs) ==
    split_objs(
        split_ptrs(<<>>,
            Flatten([i \in DOMAIN constrs |->
                Flatten([j \in DOMAIN constrs[i].cs |->
                    named_chain(constrs[i].name,
                                matter_chain(s, constrs[i].cs[j]))])])),
        Flatten([i \in DOMAIN obj_constrs |-> matter_chain(s, obj_constrs[i])]))

(***************************************************************************)
(* _get_exclusive_ptr_constraints                                          *)
(***************************************************************************)
\* a slip: `id` is not left out
_get_exclusive_ptr_constraints_with_id(s, typ) ==
    SelectSeq([i \in DOMAIN PtrOrder |->
                  [name |-> PtrOrder[i],
                   ptr |-> [name |-> PtrOrder[i], source |-> typ],
                   cs |-> ptr_constraints(s, typ, PtrOrder[i])]],
              LAMBDA e : e.name \in get_pointers(typ) /\ e.cs # <<>>)

\* the pointers of typ that carry exclusive constraints, `id` left out
_get_exclusive_ptr_constraints(s, typ) ==
    SelectSeq([i \in DOMAIN PtrOrder |->
                  [name |-> PtrOrder[i],
                   ptr |-> [name |-> PtrOrder[i], source |-> typ],
                   cs |-> ptr_constraints(s, typ, PtrOrder[i])]],
              LAMBDA e : e.name \in get_pointers(typ) /\ e.cs # <<>>
                         /\ e.name # "id")


(***************************************************************************)
(* Expressions (qlast) and the substitution utilities (qlutils)            *)
(***************************************************************************)
NoExpr == [k |-> "none"]
\* a partial path `.name`
PartialPtr(name) == [k |-> "ptr", name |-> name]
\* the path `__subject__.name` of a constraint's subject expression
SubjectPtr(name) == [k |-> "sptr", name |-> name]
\* the placeholder `__subject__`
Subject == [k |-> "subject"]
\* the path `T.name` rooted at the type name T
TypePtr(typ, name) == [k |-> "tptr", typ |-> typ, name |-> name]
\* ctx.create_anchor(val, name): a reference to a value computed once;
\* src tells where the value comes from (the shape, or the override set)
Anchor(name, src) == [k |-> "anchor", name |-> name, src |-> src]
\* qlast.TypeCast(expr=qlast.Set(elements=[]), type=...)
EmptyCast(name) == [k |-> "empty", name |-> name]
FunctionCall(fn, args) == [k |-> "fn", fn |-> fn, args |-> args]
BinOp(op, left, right) == [k |-> "binop", op |-> op, left |-> left, right |-> right]

\* Pointer.get_expr: the defining expression of a computed pointer
get_expr(p) ==
    IF p = "full"
    THEN FunctionCall("tuple", <<PartialPtr("name"), PartialPtr("tag")>>)
    ELSE NoExpr

\* Constraint.get_subjectexpr
get_subjectexpr(c) ==
    LET info == KeyInfo[c.key]
    IN IF info.fn = "" THEN NoExpr
       ELSE IF info.ptr # "" THEN FunctionCall(info.fn, <<Subject>>)
       ELSE FunctionCall(info.fn,
                [i \in DOMAIN info.refs |-> SubjectPtr(info.refs[i])])

RECURSIVE find_subject_ptrs(_)
\* qlutils.find_subject_ptrs: the pointers of the subject an expression reads
find_subject_ptrs(e) ==
    CASE e.k \in {"ptr", "sptr"} -> {e.name}
      [] e.k = "fn" -> UNION {find_subject_ptrs(e.args[i]) : i \in DOMAIN e.args}
      [] e.k = "binop" -> find_subject_ptrs(e.left) \cup find_subject_ptrs(e.right)
      [] OTHER -> {}

RECURSIVE subject_paths_substitute(_, _)
\* qlutils.subject_paths_substitute: every path to a pointer of the subject
\* replaced by that pointer's entry of the map, itself substituted
subject_paths_substitute(e, ptr_anchors) ==
    CASE e.k \in {"ptr", "sptr"} ->
            subject_paths_substitute(ptr_anchors[e.name], ptr_anchors)
      [] e.k = "fn" ->
            FunctionCall(e.fn, [i \in DOMAIN e.args |->
                subject_paths_substitute(e.args[i], ptr_anchors)])
      [] e.k = "binop" ->
            BinOp(e.op, subject_paths_substitute(e.left, ptr_anchors),
                  subject_paths_substitute(e.right, ptr_anchors))
      [] OTHER -> e

RECURSIVE subject_substitute(_, _)
\* qlutils.subject_substitute: `__subject__` replaced by new_subject; a path
\* `__subject__.name` becomes the path `new_subject.name`
subject_substitute(e, new_subject) ==
    CASE e.k = "subject" -> new_subject
      [] e.k = "sptr" ->
            IF new_subject.k = "type" THEN TypePtr(new_subject.typ, e.name)
            ELSE FunctionCall("step", <<new_subject, PartialPtr(e.name)>>)
      [] e.k = "fn" ->
            FunctionCall(e.fn, [i \in DOMAIN e.args |->
                subject_substitute(e.args[i], new_subject)])
      [] e.k = "binop" ->
            BinOp(e.op, subject_substitute(e.left, new_subject),
                  subject_substitute(e.right, new_subject))
      [] OTHER -> e

(***************************************************************************)
(* _compile_conflict_select                                                *)
(***************************************************************************)
MsgVolatileInheritance ==
    "INSERT does not support volatile properties with exclusive constraints when another statement in the same query modifies a related type"
MsgVolatileOn == "INSERT UNLESS CONFLICT ON does not support volatile properties"
MsgMatchingShape == "INSERT UNLESS CONFLICT property requires matching shape"

Raise(kind, msg) == [kind |-> kind, msg |-> msg, select |-> NoExpr]
ReturnNone == [kind |-> "None", msg |-> "", select |-> NoExpr]
Return(select) == [kind |-> "ok", msg |-> "", select |-> select]

\* the map m with key p set to v
Put(m, p, v) == [q \in DOMAIN m \cup {p} |-> IF q = p THEN v ELSE m[q]]

RECURSIVE needed_closure(_, _, _)
\* lines 74-85: the worklist over computed pointers.  st holds the
\* worklist wl, needed_ptrs and ptr_anchors
needed_closure(wl, needed_ptrs, ptr_anchors) ==
    IF wl = <<>> THEN [needed_ptrs |-> needed_ptrs, ptr_anchors |-> ptr_anchors]
    ELSE LET p == wl[Len(wl)]
             rest == SubSeq(wl, 1, Len(wl) - 1)
             expr == get_expr(p)
         IN IF expr.k # "none"
            THEN LET refs == find_subject_ptrs(expr) \ needed_ptrs
                 IN needed_closure(rest \o SetToSeqBy(refs, PtrOrder),
                                   needed_ptrs \cup refs,
                                   Put(ptr_anchors, p, expr))
            ELSE needed_closure(rest, needed_ptrs, ptr_anchors)

\* lines 67-72: the pointers the constraints name or read
needed_ptrs_of(obj_constrs, constrs) ==
    {constrs[i].name : i \in DOMAIN constrs}
        \cup UNION {find_subject_ptrs(get_subjectexpr(obj_constrs[i])) :
                       i \in DOMAIN obj_constrs}

\* a slip: the override set leaves the computed pointers as they are
fake_anchors_keep_computed(fake_dml_set, needed_ptrs, ptr_anchors) ==
    IF fake_dml_set
    THEN [p \in DOMAIN ptr_anchors \cup needed_ptrs \cup {"id"} |->
             IF p \in DOMAIN ptr_anchors THEN ptr_anchors[p]
             ELSE Anchor(p, "fake")]
    ELSE ptr_anchors

\* lines 91-96: with an override set, every needed pointer and `id` are
\* anchored to a path off the override set
fake_anchors(fake_dml_set, needed_ptrs, ptr_anchors) ==
    IF fake_dml_set
    THEN [p \in DOMAIN ptr_anchors \cup needed_ptrs \cup {"id"} |->
             IF p \in needed_ptrs \cup {"id"} THEN Anchor(p, "fake")
             ELSE ptr_anchors[p]]
    ELSE ptr_anchors

\* a slip: a shape entry is read even when the pointer has an anchor
shape_anchored_needed(stmt, needed_ptrs, ptr_anchors) ==
    {name \in stmt.shape : name \in needed_ptrs}

\* lines 100-126: the shape entries that get an anchor of their own
shape_anchored(stmt, needed_ptrs, ptr_anchors) ==
    {name \in stmt.shape : name \in needed_ptrs /\ name \notin DOMAIN ptr_anchors}

\* a slip: the IN operator is used whatever the cardinality
cond_op_always_in(name) == "IN"

\* line 170
cond_op(name) == IF is_single(name) THEN "=" ELSE "IN"

\* a slip: the subject expression of the constraint is not applied
ptr_cond_plain(name, cnstr, anchor) ==
    BinOp(cond_op(name), anchor, PartialPtr(name))

\* lines 159-172: the predicate of one pointer constraint
ptr_cond(name, cnstr, anchor) ==
    LET subjectexpr == get_subjectexpr(cnstr)
        ptr_val == PartialPtr(name)
        lhs == IF subjectexpr.k # "none"
               THEN subject_substitute(subjectexpr, anchor) ELSE anchor
        rhs == IF subjectexpr.k # "none"
               THEN subject_substitute(subjectexpr, ptr_val) ELSE ptr_val
    IN BinOp(cond_op(name), lhs, rhs)

\* lines 177-183: the predicate of one object constraint
obj_cond(subject_typ, constr, ptr_anchors) ==
    LET subjectexpr == get_subjectexpr(constr)
        insert_subject == [k |-> "type", typ |-> subject_typ]
    IN BinOp("=", subject_paths_substitute(subjectexpr, ptr_anchors),
             subject_substitute(subjectexpr, insert_subject))

RECURSIVE or_chain(_)
\* the predicates joined by binary OR, left to right
or_chain(conds) ==
    IF Len(conds) = 1 THEN conds[1]
    ELSE BinOp("OR", or_chain(SubSeq(conds, 1, Len(conds) - 1)),
               conds[Len(conds)])

\* a slip: the disjunction is a chain of OR
combine_conds_or(conds) == or_chain(conds)

\* a slip: only the first predicate is kept
combine_conds_first(conds) == conds[1]

\* lines 190-196: the disjunction of the predicates
combine_conds(conds) ==
    IF Len(conds) = 1 THEN conds[1]
    ELSE FunctionCall("any", <<[k |-> "set", elements |-> conds]>>)

\* a slip: the mutated row is not excluded
exclude_self_missing(fake_dml_set, cond, ptr_anchors) == cond

\* lines 199-209: with an override set the same object is ignored
exclude_self(fake_dml_set, cond, ptr_anchors) ==
    IF fake_dml_set
    THEN BinOp("AND", cond,
               BinOp("!=", subject_paths_substitute(ptr_anchors["id"], ptr_anchors),
                     PartialPtr("id")))
    ELSE cond

\* a slip: a pointer that only has the empty default gets predicates too
ptr_conds_all(constrs, present_ptrs, ptr_anchors) ==
    Flatten([i \in DOMAIN constrs |->
        [j \in DOMAIN constrs[i].cs |->
            ptr_cond(constrs[i].name, constrs[i].cs[j],
                     subject_paths_substitute(
                         ptr_anchors[constrs[i].name], ptr_anchors))]])

\* lines 147-172: the predicates of the pointer constraints whose pointer
\* has an anchor of its own
ptr_conds(constrs, present_ptrs, ptr_anchors) ==
    Flatten([i \in DOMAIN constrs |->
        IF constrs[i].name \notin present_ptrs THEN <<>>
        ELSE [j \in DOMAIN constrs[i].cs |->
                 ptr_cond(constrs[i].name, constrs[i].cs[j],
                          subject_paths_substitute(
                              ptr_anchors[constrs[i].name], ptr_anchors))]])

\* lines 177-183: the predicates of the object constraints
obj_conds(subject_typ, obj_constrs, ptr_anchors) ==
    [i \in DOMAIN obj_constrs |->
        obj_cond(subject_typ, obj_constrs[i], ptr_anchors)]

\* lines 185-216: the select over the predicates, None when there is none
select_of_conds(subject_typ, fake_dml_set, ptr_anchors, conds) ==
    IF conds = <<>> THEN ReturnNone
    ELSE Return([k |-> "select", typ |-> subject_typ,
                 where |-> exclude_self(fake_dml_set, combine_conds(conds),
                                        ptr_anchors)])

\* a slip: an empty anchor map is not an error
select_of_anchors_unchecked(subject_typ, fake_dml_set, obj_constrs, constrs, present_ptrs, ptr_anchors) ==
    select_of_conds(subject_typ, fake_dml_set, ptr_anchors,
        ptr_conds(constrs, present_ptrs, ptr_anchors)
            \o obj_conds(subject_typ, obj_constrs, ptr_anchors))

\* lines 141-196: no anchor at all is an error
select_of_anchors(subject_typ, fake_dml_set, obj_constrs, constrs, present_ptrs, ptr_anchors) ==
    IF DOMAIN ptr_anchors = {}
    THEN Raise("QueryError", MsgMatchingShape)
    ELSE select_of_conds(subject_typ, fake_dml_set, ptr_anchors,
             ptr_conds(constrs, present_ptrs, ptr_anchors)
                 \o obj_conds(subject_typ, obj_constrs, ptr_anchors))

\* lines 131-139: an empty set for the pointers needed but not present
fill_empty(needed_ptrs, present) ==
    [p \in DOMAIN present \cup needed_ptrs |->
        IF p \in DOMAIN present THEN present[p] ELSE EmptyCast(p)]

\* lines 125-126: the shape's value is anchored
anchor_shape(ptr_anchors, from_shape) ==
    [p \in DOMAIN ptr_anchors \cup from_shape |->
        IF p \in from_shape THEN Anchor(p, "shape") ELSE ptr_anchors[p]]

\* a slip: an inheritance check of an empty shape is not cut short
select_of_shape_no_short_circuit(stmt, subject_typ, for_inheritance, fake_dml_set, obj_constrs, constrs, needed_ptrs, ptr_anchors, from_shape) ==
    IF from_shape \cap stmt.volatile # {}
    THEN Raise("UnsupportedFeatureError",
               IF for_inheritance THEN MsgVolatileInheritance
               ELSE MsgVolatileOn)
    ELSE select_of_anchors(subject_typ, fake_dml_set, obj_constrs, constrs,
             DOMAIN ptr_anchors \cup from_shape,
             fill_empty(needed_ptrs, anchor_shape(ptr_anchors, from_shape)))

\* lines 100-145: the shape loop and what follows it
select_of_shape(stmt, subject_typ, for_inheritance, fake_dml_set, obj_constrs, constrs, needed_ptrs, ptr_anchors, from_shape) ==
    IF from_shape \cap stmt.volatile # {}
    THEN Raise("UnsupportedFeatureError",
               IF for_inheritance THEN MsgVolatileInheritance
               ELSE MsgVolatileOn)
    ELSE IF for_inheritance /\ stmt.shape = {} THEN ReturnNone
    ELSE select_of_anchors(subject_typ, fake_dml_set, obj_constrs, constrs,
             DOMAIN ptr_anchors \cup from_shape,
             fill_empty(needed_ptrs, anchor_shape(ptr_anchors, from_shape)))

\* lines 87-96: the override set, then the shape
select_of_needed(stmt, subject_typ, for_inheritance, fake_dml_set, obj_constrs, constrs, needed_ptrs, ptr_anchors) ==
    select_of_shape(stmt, subject_typ, for_inheritance, fake_dml_set,
                    obj_constrs, constrs, needed_ptrs, ptr_anchors,
                    shape_anchored(stmt, needed_ptrs, ptr_anchors))

\* lines 74-96
select_of_closure(stmt, subject_typ, for_inheritance, fake_dml_set, obj_constrs, constrs, closed) ==
    select_of_needed(stmt, subject_typ, for_inheritance, fake_dml_set,
                     obj_constrs, constrs, closed.needed_ptrs,
                     fake_anchors(fake_dml_set, closed.needed_ptrs,
                                  closed.ptr_anchors))

\* lines 67-85: the needed pointers, closed under computed pointers
closure_of(needed0) ==
    needed_closure(SetToSeqBy(needed0, PtrOrder), needed0, <<>>)

_compile_conflict_select(stmt, subject_typ, for_inheritance, fake_dml_set, obj_constrs, constrs) ==
    select_of_closure(stmt, subject_typ, for_inheritance, fake_dml_set,
                      obj_constrs, constrs,
                      closure_of(needed_ptrs_of(obj_constrs, constrs)))

\* lines 98-139: the anchor map once the shape is read and the empty
\* sets are filled in
anchors_of_fake(stmt, needed_ptrs, ptr_anchors) ==
    fill_empty(needed_ptrs,
        anchor_shape(ptr_anchors, shape_anchored(stmt, needed_ptrs, ptr_anchors)))

\* lines 87-139
anchors_of_closed(stmt, fake_dml_set, closed) ==
    anchors_of_fake(stmt, closed.needed_ptrs,
        fake_anchors(fake_dml_set, closed.needed_ptrs, closed.ptr_anchors))

\* lines 67-139: the value ptr_anchors has at line 141
ptr_anchors_of(stmt, fake_dml_set, obj_constrs, constrs) ==
    anchors_of_closed(stmt, fake_dml_set,
        closure_of(needed_ptrs_of(obj_constrs, constrs)))

(***************************************************************************)
(* compile_conflict_select                                                 *)
(***************************************************************************)
\* a slip: a bucket of another type counts even when it gave no select
from_parent_any_bucket(subject_typ, type_maps, frags) ==
    \E i \in DOMAIN type_maps : type_maps[i].obj # subject_typ

\* lines 307-319: some select came from a type other than subject_typ
from_parent_of(subject_typ, type_maps, frags) ==
    \E i \in DOMAIN type_maps :
        frags[i].kind = "ok" /\ type_maps[i].obj # subject_typ

\* a slip: view children count as well
has_concrete_child_any(s, subject_typ) == children(s, subject_typ) # {}

\* lines 321-323: subject_typ has a child that is not a view
has_concrete_child(s, subject_typ) ==
    \E child \in children(s, subject_typ) : ~is_view(s, child)

\* lines 321-334: the union of the selects and the two flags
union_of_frags(s, subject_typ, type_maps, frags, from_parent) ==
    [kind |-> "ok", msg |-> "", type_maps |-> type_maps,
     frags |-> [n \in DOMAIN SelectSeq(frags, LAMBDA f : f.kind = "ok") |->
                  SelectSeq(frags, LAMBDA f : f.kind = "ok")[n].select],
     always_check |-> from_parent \/ has_concrete_child(s, subject_typ),
     from_parent |-> from_parent]

\* lines 306-334: the first bucket that raises ends the call
result_of_frags(s, subject_typ, type_maps, frags) ==
    IF \E i \in DOMAIN frags : frags[i].kind \notin {"ok", "None"}
    THEN [kind |-> frags[CHOOSE i \in DOMAIN frags :
                      /\ frags[i].kind \notin {"ok", "None"}
                      /\ \A j \in 1..(i - 1) : frags[j].kind \in {"ok", "None"}].kind,
          msg |-> frags[CHOOSE i \in DOMAIN frags :
                      /\ frags[i].kind \notin {"ok", "None"}
                      /\ \A j \in 1..(i - 1) : frags[j].kind \in {"ok", "None"}].msg,
          type_maps |-> type_maps, frags |-> <<>>,
          always_check |-> FALSE, from_parent |-> FALSE]
    ELSE union_of_frags(s, subject_typ, type_maps, frags,
                        from_parent_of(subject_typ, type_maps, frags))

\* lines 309-315: one select for each declaring type
frags_of_maps(stmt, for_inheritance, fake_dml_set, type_maps) ==
    [i \in DOMAIN type_maps |->
        _compile_conflict_select(stmt, type_maps[i].obj, for_inheritance,
            fake_dml_set, type_maps[i].objs, type_maps[i].map)]

\* lines 306-334
select_of_maps(s, stmt, subject_typ, for_inheritance, fake_dml_set, type_maps) ==
    result_of_frags(s, subject_typ, type_maps,
        frags_of_maps(stmt, for_inheritance, fake_dml_set, type_maps))

compile_conflict_select(s, stmt, subject_typ, for_inheritance, fake_dml_set, obj_constrs, constrs) ==
    select_of_maps(s, stmt, subject_typ, for_inheritance, fake_dml_set,
        IF for_inheritance
        THEN <<[obj |-> subject_typ, map |-> constrs, objs |-> obj_constrs]>>
        ELSE _split_constraints(s, obj_constrs, constrs))

(***************************************************************************)
(* compile_insert_unless_conflict                                          *)
(***************************************************************************)
NoClause == [constraint |-> "None", frags |-> <<>>, always_check |-> FALSE,
             else_ir |-> FALSE]

\* irast.OnConflictClause(constraint, select_ir, always_check, else_ir)
OnConflictClause(constraint, frags, always_check, else_ir) ==
    [constraint |-> constraint, frags |-> frags,
     always_check |-> always_check, else_ir |-> else_ir]

\* lines 376-378
implicit_clause(sel) ==
    IF sel.kind # "ok"
    THEN [kind |-> sel.kind, msg |-> sel.msg, lookup |-> TRUE, synth |-> TRUE,
          matched |-> <<>>, type_maps |-> sel.type_maps, clause |-> NoClause]
    ELSE [kind |-> "ok", msg |-> "", lookup |-> TRUE, synth |-> TRUE,
          matched |-> <<>>, type_maps |-> sel.type_maps,
          clause |-> OnConflictClause("None", sel.frags, sel.always_check, FALSE)]

compile_insert_unless_conflict(s, stmt, typ) ==
    implicit_clause(
        compile_conflict_select(s, stmt, typ, FALSE, FALSE,
            obj_constraints(s, typ), _get_exclusive_ptr_constraints(s, typ)))

(***************************************************************************)
(* compile_insert_unless_conflict_on                                       *)
(***************************************************************************)
MsgNotPointer ==
    "UNLESS CONFLICT argument must be a property, link, or tuple of properties and links"
MsgNotOwn == "UNLESS CONFLICT argument must be a property of the type being inserted"
MsgNotProperty == "UNLESS CONFLICT property must be a property"
MsgNotSingle == "UNLESS CONFLICT property must be a SINGLE property"
MsgNotOneConstraint ==
    "UNLESS CONFLICT property must have a single exclusive constraint"
MsgElseFromParent ==
    "UNLESS CONFLICT can not use ELSE when constraint is from a parent type"

\* lines 398-401: a tuple gives its elements, anything else itself
cspec_args_of(constraint_spec) == constraint_spec.elems

\* lines 403-416: the first argument that is no pointer of the subject
first_loop_error(cspec_args) ==
    LET bad == {i \in DOMAIN cspec_args : cspec_args[i].kind \in {"expr", "foreign"}}
    IN IF bad = {} THEN ""
       ELSE LET i == CHOOSE i \in bad : \A j \in bad : i <= j
            IN IF cspec_args[i].kind = "expr" THEN MsgNotPointer ELSE MsgNotOwn

\* a slip: the cardinality of the pointer is not looked at
second_loop_error_nocard(cspec_args) ==
    LET bad == {i \in DOMAIN cspec_args : cspec_args[i].kind = "pseudo"}
    IN IF bad = {} THEN "" ELSE MsgNotProperty

\* lines 422-440: the first argument that is no single pointer
second_loop_error(cspec_args) ==
    LET bad == {i \in DOMAIN cspec_args :
                   cspec_args[i].kind = "pseudo" \/ ~is_single(cspec_args[i].name)}
    IN IF bad = {} THEN ""
       ELSE LET i == CHOOSE i \in bad : \A j \in bad : i <= j
            IN IF cspec_args[i].kind = "pseudo" THEN MsgNotProperty
               ELSE MsgNotSingle

\* inference.cardinality.get_object_exclusive_constraints: the object-level
\* exclusive constraints of typ whose subject expression reads exactly ptrs
get_object_exclusive_constraints(s, typ, ptrs) ==
    SelectSeq(obj_constraints(s, typ),
              LAMBDA c : find_subject_ptrs(get_subjectexpr(c)) = ptrs)

\* a slip: any number of matching constraints but zero is accepted
one_constraint_atleast(all_constrs) == Len(all_constrs) >= 1

\* line 452
one_constraint(all_constrs) == Len(all_constrs) = 1

\* a slip: ELSE is compiled whatever the origin of the constraint
else_rejected_never(else_branch, from_anc) == FALSE

\* lines 466-474
else_rejected(else_branch, from_anc) == else_branch /\ from_anc

Fail(kind, msg, lookup, synth, matched, type_maps) ==
    [kind |-> kind, msg |-> msg, lookup |-> lookup, synth |-> synth,
     matched |-> matched, type_maps |-> type_maps, clause |-> NoClause]

\* lines 464-490: the ELSE branch and the clause
on_clause(else_branch, all_constrs, sel) ==
    IF sel.kind # "ok"
    THEN Fail(sel.kind, sel.msg, TRUE, TRUE, all_constrs, sel.type_maps)
    ELSE IF else_rejected(else_branch, sel.from_parent)
    THEN Fail("UnsupportedFeatureError", MsgElseFromParent, TRUE, TRUE,
              all_constrs, sel.type_maps)
    ELSE [kind |-> "ok", msg |-> "", lookup |-> TRUE, synth |-> TRUE,
          matched |-> all_constrs, type_maps |-> sel.type_maps,
          clause |-> OnConflictClause(all_constrs[1], sel.frags,
                                      sel.always_check, else_branch)]

\* lines 458-459: a dict, so a pointer named twice has one entry
ds_of(typ, ptrs, field_constrs) ==
    SelectSeq([i \in DOMAIN PtrOrder |->
                  [name |-> PtrOrder[i],
                   ptr |-> [name |-> PtrOrder[i], source |-> typ],
                   cs |-> field_constrs]],
              LAMBDA e : e.name \in Range(ptrs))

\* lines 451-490
on_constrs(s, stmt, typ, else_branch, ptrs, obj_constrs, field_constrs) ==
    IF ~one_constraint(obj_constrs \o field_constrs)
    THEN Fail("QueryError", MsgNotOneConstraint, TRUE, FALSE,
              obj_constrs \o field_constrs, <<>>)
    ELSE on_clause(else_branch, obj_constrs \o field_constrs,
             compile_conflict_select(s, stmt, typ, FALSE, FALSE, obj_constrs,
                                     ds_of(typ, ptrs, field_constrs)))

\* lines 442-449: the constraints the target pointers match
on_ptrs(s, stmt, typ, else_branch, ptrs) ==
    on_constrs(s, stmt, typ, else_branch, ptrs,
        get_object_exclusive_constraints(s, typ, Range(ptrs)),
        IF Len(ptrs) = 1 THEN ptr_constraints(s, typ, ptrs[1]) ELSE <<>>)

\* lines 403-490
on_args(s, stmt, typ, else_branch, cspec_args) ==
    IF first_loop_error(cspec_args) # ""
    THEN Fail("QueryError", first_loop_error(cspec_args), FALSE, FALSE, <<>>, <<>>)
    ELSE IF second_loop_error(cspec_args) # ""
    THEN Fail("QueryError", second_loop_error(cspec_args), FALSE, FALSE, <<>>, <<>>)
    ELSE on_ptrs(s, stmt, typ, else_branch,
                 [i \in DOMAIN cspec_args |-> cspec_args[i].name])

compile_insert_unless_conflict_on(s, stmt, typ, constraint_spec, else_branch) ==
    on_args(s, stmt, typ, else_branch, cspec_args_of(constraint_spec))

(***************************************************************************)
(* compile_inheritance_conflict_selects                                    *)
(***************************************************************************)
\* a slip: an entry is made for every constraint, enforced here or not
entries_of_unfiltered(s, ptr_entries, obj_constrs) ==
    Flatten([i \in DOMAIN ptr_entries |->
        [j \in DOMAIN ptr_entries[i].cs |->
            [cnstr |-> ptr_entries[i].cs[j],
             p |-> <<[ptr_entries[i] EXCEPT !.cs = <<ptr_entries[i].cs[j]>>]>>,
             o |-> <<>>]]])
    \o [j \in DOMAIN obj_constrs |->
           [cnstr |-> obj_constrs[j], p |-> <<>>, o |-> <<obj_constrs[j]>>]]

\* lines 517-524: one entry for each constraint of typ that matters, the
\* pointer constraints first
entries_of(s, ptr_entries, obj_constrs) ==
    Flatten([i \in DOMAIN ptr_entries |->
        [j \in DOMAIN SelectSeq(ptr_entries[i].cs,
                                LAMBDA c : _constr_matters(s, c)) |->
            [cnstr |-> SelectSeq(ptr_entries[i].cs,
                                 LAMBDA c : _constr_matters(s, c))[j],
             p |-> <<[ptr_entries[i] EXCEPT !.cs =
                        <<SelectSeq(ptr_entries[i].cs,
                                    LAMBDA c : _constr_matters(s, c))[j]>>]>>,
             o |-> <<>>]]])
    \o [j \in DOMAIN SelectSeq(obj_constrs, LAMBDA c : _constr_matters(s, c)) |->
           [cnstr |-> SelectSeq(obj_constrs, LAMBDA c : _constr_matters(s, c))[j],
            p |-> <<>>,
            o |-> <<SelectSeq(obj_constrs, LAMBDA c : _constr_matters(s, c))[j]>>]]

\* a slip: the override set is built when the other statement is an update
needs_fake_dml_set_of_conflict(s, stmt, dml, conflict) ==
    dml[conflict].kind = "update"

\* lines 528-533: an update reads its rows from an override set
needs_fake_dml_set(s, stmt, dml, conflict) == stmt.kind = "update"

\* lines 546-551; else_fail is the position of the other statement in
\* dml_stmts, update_query_set the type the override set selects
InheritanceClause(cnstr, frags, conflict, fake_dml_set, subject_styp) ==
    [constraint |-> cnstr, frags |-> frags, always_check |-> FALSE,
     else_ir |-> FALSE, else_fail |-> conflict,
     update_query_set |-> IF fake_dml_set THEN subject_styp ELSE "None"]

\* lines 535-553: a clause for each entry whose select is not empty; the
\* first entry that raises ends the call
clauses_of_selects(entries, sels, conflict, fake_dml_set, subject_styp) ==
    IF \E i \in DOMAIN sels : sels[i].kind # "ok"
    THEN [kind |-> sels[IndexOf(sels, LAMBDA x : x.kind # "ok")].kind,
          msg |-> sels[IndexOf(sels, LAMBDA x : x.kind # "ok")].msg,
          clauses |-> <<>>]
    ELSE [kind |-> "ok", msg |-> "",
          clauses |->
            [n \in DOMAIN SelectSeq(Indices(sels), LAMBDA i : sels[i].frags # <<>>) |->
                InheritanceClause(
                    entries[SelectSeq(Indices(sels),
                                      LAMBDA i : sels[i].frags # <<>>)[n]].cnstr,
                    sels[SelectSeq(Indices(sels),
                                   LAMBDA i : sels[i].frags # <<>>)[n]].frags,
                    conflict, fake_dml_set, subject_styp)]]

\* lines 536-542
selects_of_entries(s, stmt, typ, fake_dml_set, entries) ==
    [i \in DOMAIN entries |->
        compile_conflict_select(s, stmt, typ, TRUE, fake_dml_set,
                                entries[i].o, entries[i].p)]

\* lines 510-553
selects_of_typ(s, stmt, conflict, typ, subject_styp, fake_dml_set, entries) ==
    clauses_of_selects(entries,
        selects_of_entries(s, stmt, typ, fake_dml_set, entries),
        conflict, fake_dml_set, subject_styp)

compile_inheritance_conflict_selects(s, stmt, dml, conflict, typ, subject_styp) ==
    selects_of_typ(s, stmt, conflict, typ, subject_styp,
        needs_fake_dml_set(s, stmt, dml, conflict),
        entries_of(s, _get_exclusive_ptr_constraints(s, typ),
                   obj_constraints(s, typ)))

(***************************************************************************)
(* compile_inheritance_conflict_checks                                     *)
(***************************************************************************)
RECURSIVE get_nearest_non_derived_parent(_, _)
\* a view stands for the type it derives from
get_nearest_non_derived_parent(s, t) ==
    IF is_view(s, t) /\ s.bases[t] # {}
    THEN get_nearest_non_derived_parent(s, CHOOSE b \in s.bases[t] : TRUE)
    ELSE t

\* the types of a set none of whose subtypes is in the set
nearest_of(s, common) ==
    {x \in common : ~\E y \in common : x \in ancestors(s, y)}

\* s_utils.get_class_nearest_common_ancestors of two types: the types
\* both are or descend from that have no subtype with that property
get_class_nearest_common_ancestors(s, a, b) ==
    nearest_of(s, ({a} \cup ancestors(s, a)) \cap ({b} \cup ancestors(s, b)))

\* lines 571-575
subject_stypes_of(s, stmt, subject_stype) ==
    {subject_stype} \cup
        (IF stmt.kind = "update" THEN descendants(s, subject_stype) ELSE {})

\* lines 580-587: the types an earlier statement writes
typs_of(s, ir) ==
    {get_nearest_non_derived_parent(s, ir.typ)} \cup
        (IF ir.kind = "update"
         THEN descendants(s, get_nearest_non_derived_parent(s, ir.typ))
         ELSE {})

\* a slip: an insert is paired with an earlier insert into the same type
same_type_skipped_never(stmt, ir, subject_stype, typ) == FALSE

\* lines 600-605
same_type_skipped(stmt, ir, subject_stype, typ) ==
    subject_stype = typ /\ ir.kind # "update" /\ stmt.kind # "update"

\* a slip: the triple records the other statement's type
pair_ancestors_by_other(s, stmt, ir, i, subject_stype, typ) ==
    IF same_type_skipped(stmt, ir, subject_stype, typ) THEN {}
    ELSE {<<typ, anc, i>> :
            anc \in get_class_nearest_common_ancestors(s, subject_stype, typ)
                        \ {BaseObject}}

\* lines 600-610: the triples of one pair of types
pair_ancestors(s, stmt, ir, i, subject_stype, typ) ==
    IF same_type_skipped(stmt, ir, subject_stype, typ) THEN {}
    ELSE {<<subject_stype, anc, i>> :
            anc \in get_class_nearest_common_ancestors(s, subject_stype, typ)
                        \ {BaseObject}}

\* lines 579-610: modified_ancestors, a set of (subject type, ancestor,
\* earlier statement); the earlier statement is its position in dml_stmts
modified_ancestors_of(s, stmt, subject_stype, dml) ==
    UNION {pair_ancestors(s, stmt, dml[x[1]], x[1], x[2], x[3]) :
        x \in {y \in (DOMAIN dml)
                        \X subject_stypes_of(s, stmt, subject_stype) \X Types :
                 /\ y[3] \in typs_of(s, dml[y[1]])
                 /\ ~is_view(s, y[3])
                 /\ ~is_view(s, y[2])}}

\* a slip: an empty list of clauses is returned as it is
conflicters_of_empty_list(results) ==
    IF \E tr \in DOMAIN results : results[tr].kind # "ok"
    THEN [kind |-> results[CHOOSE tr \in DOMAIN results :
                               results[tr].kind # "ok"].kind,
          msg |-> results[CHOOSE tr \in DOMAIN results :
                              results[tr].kind # "ok"].msg,
          clauses |-> {}, modified_ancestors |-> DOMAIN results]
    ELSE [kind |-> "ok", msg |-> "",
          clauses |-> UNION {
              {[subject_stype |-> tr[1], anc_type |-> tr[2], n |-> n,
                clause |-> results[tr].clauses[n]] :
                  n \in DOMAIN results[tr].clauses} : tr \in DOMAIN results},
          modified_ancestors |-> DOMAIN results]

\* lines 612-617: the clauses of every triple.  The list is built in the
\* iteration order of a set, which the code does not fix: it is modelled
\* by the set of its clauses, each with the triple and the position it
\* has among the clauses of that triple.  The local set modified_ancestors
\* is kept next to the result for inspection
conflicters_of(results) ==
    IF \E tr \in DOMAIN results : results[tr].kind # "ok"
    THEN [kind |-> results[CHOOSE tr \in DOMAIN results :
                               results[tr].kind # "ok"].kind,
          msg |-> results[CHOOSE tr \in DOMAIN results :
                              results[tr].kind # "ok"].msg,
          clauses |-> {}, modified_ancestors |-> DOMAIN results]
    ELSE IF \A tr \in DOMAIN results : results[tr].clauses = <<>>
    THEN [kind |-> "None", msg |-> "", clauses |-> {},
          modified_ancestors |-> DOMAIN results]
    ELSE [kind |-> "ok", msg |-> "",
          clauses |-> UNION {
              {[subject_stype |-> tr[1], anc_type |-> tr[2], n |-> n,
                clause |-> results[tr].clauses[n]] :
                  n \in DOMAIN results[tr].clauses} : tr \in DOMAIN results},
          modified_ancestors |-> DOMAIN results]

\* lines 612-615
checks_of_ancestors(s, stmt, dml, modified_ancestors) ==
    conflicters_of([tr \in modified_ancestors |->
        compile_inheritance_conflict_selects(s, stmt, dml, tr[3], tr[2], tr[1])])

compile_inheritance_conflict_checks(s, stmt, subject_stype, dml) ==
    IF dml = <<>>
    THEN [kind |-> "None", msg |-> "", clauses |-> {}, modified_ancestors |-> {}]
    ELSE checks_of_ancestors(s, stmt, dml,
             modified_ancestors_of(s, stmt, subject_stype, dml))

(***************************************************************************)
(* Calls and their outcomes                                                *)
(***************************************************************************)
NoStmt == [kind |-> "none", typ |-> "", shape |-> {}, volatile |-> {},
           val |-> {}]

NoSpec == [tuple |-> FALSE, elems |-> <<>>]

NoCall == [op |-> "none", typ |-> "", stmt |-> NoStmt,
           constrs |-> <<>>, obj_constrs |-> <<>>,
           constraint_spec |-> NoSpec, else_branch |-> FALSE]

NoRet == [kind |-> "none", msg |-> "", lookup |-> FALSE, synth |-> FALSE,
          matched |-> <<>>, type_maps |-> <<>>, clause |-> NoClause]

(***************************************************************************)
(* SpecSplit: _split_constraints on the constraints of a type              *)
(***************************************************************************)
SplitSchemas ==
    {[bases |-> h, views |-> {}, decl |-> d] :
        h \in Hierarchies,
        d \in DeclsOver(UserTypes, {"px_name", "ox_pair"}, MaxDecls)}

InitSplit ==
    /\ schema \in SplitSchemas
    /\ dml_stmts = <<>>
    /\ call = NoCall
    /\ ret = NoRet
    /\ emitted = {}

\* _split_constraints on every exclusive constraint of typ, as
\* compile_insert_unless_conflict passes them
SplitAll(typ) ==
    LET constrs == _get_exclusive_ptr_constraints(schema, typ)
        objs == obj_constraints(schema, typ)
    IN /\ call.op = "none"
       /\ call' = [NoCall EXCEPT !.op = "_split_constraints", !.typ = typ,
                      !.constrs = constrs, !.obj_constrs = objs]
       /\ ret' = [NoRet EXCEPT !.kind = "ok",
                     !.type_maps = _split_constraints(schema, objs, constrs)]
       /\ UNCHANGED <<schema, dml_stmts, emitted>>

\* _split_constraints on the one constraint k of typ, as
\* compile_insert_unless_conflict_on passes it
SplitOne(typ, k) ==
    LET c == Constr(k, typ)
        p == KeyInfo[k].ptr
        constrs == IF p = "" THEN <<>>
                   ELSE <<[name |-> p, ptr |-> [name |-> p, source |-> typ],
                           cs |-> <<c>>]>>
        objs == IF p = "" THEN <<c>> ELSE <<>>
    IN /\ call.op = "none"
       /\ HasConstr(schema, k, typ)
       /\ call' = [NoCall EXCEPT !.op = "_split_constraints", !.typ = typ,
                      !.constrs = constrs, !.obj_constrs = objs]
       /\ ret' = [NoRet EXCEPT !.kind = "ok",
                     !.type_maps = _split_constraints(schema, objs, constrs)]
       /\ UNCHANGED <<schema, dml_stmts, emitted>>

NextSplit ==
    \/ \E typ \in UserTypes : SplitAll(typ)
    \/ \E typ \in UserTypes, k \in {"px_name", "ox_pair"} : SplitOne(typ, k)

SpecSplit == InitSplit /\ [][NextSplit]_vars

\* the constraints handed to the call of _split_constraints
InputConstrs ==
    Range(call.obj_constrs)
        \cup UNION {Range(call.constrs[i].cs) : i \in DOMAIN call.constrs}

\* the buckets of the returned map that hold a copy of constraint k
BucketsOf(k) ==
    {i \in DOMAIN ret.type_maps :
        \/ \E j \in DOMAIN ret.type_maps[i].objs :
              ret.type_maps[i].objs[j].key = k
        \/ \E m \in DOMAIN ret.type_maps[i].map :
              \E j \in DOMAIN ret.type_maps[i].map[m].cs :
                  ret.type_maps[i].map[m].cs[j].key = k}

\* how many entries of the returned map are copies of constraint k
EntriesOf(k) ==
    LET all == Flatten([i \in DOMAIN ret.type_maps |->
                   ret.type_maps[i].objs \o
                   Flatten([m \in DOMAIN ret.type_maps[i].map |->
                       ret.type_maps[i].map[m].cs])])
    IN Cardinality({n \in DOMAIN all : all[n].key = k})

\* the types of the lineage of c (its own type and the ancestors) that
\* declare the constraint
DeclaringTypes(c) ==
    {x \in {c.on} \cup ancestors(schema, c.on) : schema.decl[x][c.key] # "none"}

\* c is an unchanged inherited copy of a constraint that one ancestor x
\* declares (owned, not delegated), and a sibling type inherits it too
InheritedBySiblings(c, x) ==
    /\ x \in ancestors(schema, c.on)
    /\ DeclaringTypes(c) = {x}
    /\ schema.decl[x][c.key] = "own"
    /\ \E sib \in UserTypes \ {c.on} :
          /\ schema.bases[sib] \cap schema.bases[c.on] # {}
          /\ x \in ancestors(schema, sib)
          /\ DeclaringTypes(Constr(c.key, sib)) = {x}

\* C1: a constraint declared on an ancestor and inherited unchanged by two
\* siblings is put by _split_constraints in exactly one bucket, the
\* ancestor's, and there once: never under a sibling, never nowhere.
C1_OneBucketAtAncestor ==
    call.op = "_split_constraints" =>
        \A c \in InputConstrs : \A x \in Types :
            InheritedBySiblings(c, x) =>
                /\ {ret.type_maps[i].obj : i \in BucketsOf(c.key)} = {x}
                /\ EntriesOf(c.key) = 1

\* C1 witness: a sibling's inherited copy was split
C1_Witness ==
    /\ call.op = "_split_constraints"
    /\ \E c \in InputConstrs : \E x \in Types :
          /\ InheritedBySiblings(c, x)
          /\ c.on \in {"A", "B"}
          /\ Cardinality(BucketsOf(c.key)) = 1

\* the constraints of the chain of c that satisfy _constr_matters
MatterLevels(c) ==
    {a \in Range(constr_chain(schema, c)) : _constr_matters(schema, a)}

LinearLineage(c) ==
    \A a, b \in {c.on} \cup ancestors(schema, c.on) :
        a = b \/ a \in ancestors(schema, b) \/ b \in ancestors(schema, a)

OnKeys == {"px_name", "px_lower", "ox_name", "ox_pair"}

OnSchemas ==
    {[bases |-> h, views |-> {}, decl |-> d] :
        h \in {HFlat, HChain},
        d \in DeclsOver({"C", "A"}, OnKeys, MaxDecls)}

\* a pointer of the statement's subject
PtrArg(name) == [kind |-> "ptr", name |-> name]
\* an expression that is no pointer reference (rptr is None)
ExprArg == [kind |-> "expr", name |-> ""]
\* a pointer whose source is not the statement's subject
ForeignArg == [kind |-> "foreign", name |-> "name"]
\* a pointer reference that does not resolve to a schema pointer
PseudoArg == [kind |-> "pseudo", name |-> "__type__"]

TargetSpecs ==
    {[tuple |-> FALSE, elems |-> <<a>>] :
        a \in {PtrArg("name"), PtrArg("tag"), PtrArg("tags"), ExprArg,
               ForeignArg, PseudoArg}}
    \cup
    {[tuple |-> TRUE, elems |-> e] :
        e \in {<<PtrArg("name"), PtrArg("tag")>>,
               <<PtrArg("tag"), PtrArg("name")>>,
               <<PtrArg("name"), PtrArg("tags")>>,
               <<PtrArg("name"), ExprArg>>,
               <<ForeignArg, PtrArg("tags")>>,
               <<PtrArg("name")>>,
               <<PtrArg("name"), PtrArg("name")>>}}

\* the insert statements of the ON clause: the shape names `name` and `tag`
\* or not, and the value given for `name` may be volatile
OnStmts ==
    {[kind |-> "insert", typ |-> "A", shape |-> sh, volatile |-> vol,
      val |-> {"a"}] :
        sh \in SUBSET {"name", "tag"}, vol \in SUBSET {"name"}}

InitOn ==
    /\ schema \in OnSchemas
    /\ dml_stmts = <<>>
    /\ call = NoCall
    /\ ret = NoRet
    /\ emitted = {}

CompileOn(stmt, constraint_spec, else_branch) ==
    /\ call.op = "none"
    /\ stmt.volatile \subseteq stmt.shape
    /\ call' = [NoCall EXCEPT !.op = "compile_insert_unless_conflict_on",
                   !.typ = stmt.typ, !.stmt = stmt,
                   !.constraint_spec = constraint_spec,
                   !.else_branch = else_branch]
    /\ ret' = compile_insert_unless_conflict_on(schema, stmt, stmt.typ,
                                                constraint_spec, else_branch)
    /\ UNCHANGED <<schema, dml_stmts, emitted>>

NextOn ==
    \E stmt \in OnStmts, cs \in TargetSpecs, eb \in BOOLEAN :
        CompileOn(stmt, cs, eb)

SpecOn == InitOn /\ [][NextOn]_vars


\* every argument passed the two validation loops
ArgsValid ==
    \A i \in DOMAIN call.constraint_spec.elems :
        /\ call.constraint_spec.elems[i].kind = "ptr"
        /\ is_single(call.constraint_spec.elems[i].name)

\* the pointers the target names
TargetPtrs ==
    {call.constraint_spec.elems[i].name : i \in DOMAIN call.constraint_spec.elems}

\* the exclusive constraints of the subject type the target matches: the
\* object-level ones over exactly the target pointers and, for a target of
\* one pointer, the pointer-level ones on it
Matching ==
    {Constr(k, call.typ) : k \in
        {k \in Keys :
            /\ HasConstr(schema, k, call.typ)
            /\ \/ KeyInfo[k].ptr = "" /\ Range(KeyInfo[k].refs) = TargetPtrs
               \/ /\ KeyInfo[k].ptr # ""
                  /\ Len(call.constraint_spec.elems) = 1
                  /\ TargetPtrs = {KeyInfo[k].ptr}}}

\* the types at which constraint c is enforced
OwnerTypes(c) == {a.on : a \in MatterLevels(c)}

\* C4: with an ELSE branch, a matched constraint owned by a type other
\* than the subject type is rejected as unsupported and no else branch is
\* compiled, whatever the shape.
C4_ElseRejectedForParentConstraint ==
    (/\ call.op = "compile_insert_unless_conflict_on"
     /\ call.else_branch
     /\ ArgsValid
     /\ Cardinality(Matching) = 1
     /\ \E c \in Matching : OwnerTypes(c) \ {call.typ} # {})
    => /\ ret.kind = "UnsupportedFeatureError"
       /\ ~ret.clause.else_ir

\* C5: a clause is returned only for a target matching exactly one
\* constraint, and is tagged with it; a target matching none or several
\* raises QueryError and gives no clause.
C5_ExactlyOneConstraint ==
    call.op = "compile_insert_unless_conflict_on" =>
        /\ ret.kind = "ok" =>
              /\ Cardinality(Matching) = 1
              /\ ret.clause.constraint \in Matching
        /\ (ArgsValid /\ Cardinality(Matching) # 1) =>
              /\ ret.kind = "QueryError"
              /\ ret.msg = MsgNotOneConstraint
              /\ ret.clause = NoClause

\* C5 witness: a target of one pointer that carries two exclusive
\* constraints was rejected
C5_Witness ==
    /\ call.op = "compile_insert_unless_conflict_on"
    /\ ArgsValid
    /\ Cardinality(Matching) = 2
    /\ ret.kind = "QueryError"
    /\ Len(ret.matched) = 2

\* some argument is no pointer reference, is not rooted at the subject,
\* or is a multi pointer
SomeArgInvalid ==
    \E i \in DOMAIN call.constraint_spec.elems :
        \/ call.constraint_spec.elems[i].kind # "ptr"
        \/ ~is_single(call.constraint_spec.elems[i].name)

\* C6: an invalid target argument raises QueryError before any constraint
\* is looked up or any select synthesized; a clause is returned only when
\* every argument is a single pointer of the subject.
C6_ArgumentsValidatedFirst ==
    call.op = "compile_insert_unless_conflict_on" =>
        /\ SomeArgInvalid =>
              /\ ret.kind = "QueryError"
              /\ ~ret.lookup /\ ~ret.synth
              /\ ret.matched = <<>>
              /\ ret.clause = NoClause
        /\ ret.kind = "ok" => ArgsValid

\* C6 witness: a tuple whose second element is a multi pointer was
\* rejected although its first element carries an exclusive constraint
C6_Witness ==
    /\ call.op = "compile_insert_unless_conflict_on"
    /\ call.constraint_spec.elems = <<PtrArg("name"), PtrArg("tags")>>
    /\ HasConstr(schema, "px_name", call.typ)
    /\ ret.kind = "QueryError"
    /\ ret.msg = MsgNotSingle
    /\ ~ret.lookup

(***************************************************************************)
(* The meaning of a conflict select: EdgeQL set semantics of the filter    *)
(***************************************************************************)
\* str_lower on the values used
Lower(v) == IF v = "A" THEN "a" ELSE v

\* the values a statement's shape gives a pointer: `name` as the statement
\* says, the others fixed
ShapeVal(stmt, p) ==
    CASE p \notin stmt.shape -> {}
      [] p = "name" -> stmt.val
      [] p = "tag" -> {"x"}
      [] p = "tags" -> {"a", "b"}
      [] OTHER -> {}

\* the values of pointer p of a stored object
RowVal(row, p) ==
    CASE p = "id" -> {row.id}
      [] p = "name" -> row.name
      [] p = "tag" -> row.tag
      [] p = "tags" -> row.tags
      [] p = "full" -> {<<n, t>> : n \in row.name, t \in row.tag}
      [] OTHER -> {}

RECURSIVE Eval(_, _)
\* the set an expression evaluates to; env holds the statement whose shape
\* the anchors stand for, the stored object the filter is applied to and
\* the object an override set ranges over
Eval(e, env) ==
    CASE e.k = "anchor" ->
            IF e.src = "shape" THEN ShapeVal(env.stmt, e.name)
            ELSE RowVal(env.mut, e.name)
      [] e.k = "empty" -> {}
      [] e.k \in {"ptr", "tptr"} -> RowVal(env.row, e.name)
      [] e.k = "set" ->
            UNION {Eval(e.elements[i], env) : i \in DOMAIN e.elements}
      [] e.k = "fn" /\ e.fn = "lower" ->
            {Lower(v) : v \in Eval(e.args[1], env)}
      [] e.k = "fn" /\ e.fn = "tuple" /\ Len(e.args) = 1 ->
            {<<v>> : v \in Eval(e.args[1], env)}
      [] e.k = "fn" /\ e.fn = "tuple" /\ Len(e.args) = 2 ->
            {<<v, w>> : v \in Eval(e.args[1], env), w \in Eval(e.args[2], env)}
      [] e.k = "fn" /\ e.fn = "any" -> {TRUE \in Eval(e.args[1], env)}
      [] e.k = "fn" /\ e.fn = "const" -> {"k"}
      [] e.k = "binop" /\ e.op = "=" ->
            {(l = r) : l \in Eval(e.left, env), r \in Eval(e.right, env)}
      [] e.k = "binop" /\ e.op = "!=" ->
            {(l # r) : l \in Eval(e.left, env), r \in Eval(e.right, env)}
      [] e.k = "binop" /\ e.op = "IN" ->
            {(l \in Eval(e.right, env)) : l \in Eval(e.left, env)}
      [] e.k = "binop" /\ e.op = "AND" ->
            {(l /\ r) : l \in Eval(e.left, env), r \in Eval(e.right, env)}
      [] e.k = "binop" /\ e.op = "OR" ->
            {(l \/ r) : l \in Eval(e.left, env), r \in Eval(e.right, env)}
      [] OTHER -> {}

\* SELECT sel.typ FILTER sel.where returns the stored object
InSelect(s, sel, env) ==
    /\ env.row.typ \in {sel.typ} \cup descendants(s, sel.typ)
    /\ TRUE \in Eval(sel.where, env)

\* the union of the selects of a clause returns the stored object
InResult(s, frags, env) ==
    \E i \in DOMAIN frags : InSelect(s, frags[i], env)

\* the stored objects the checks range over
Rows ==
    [typ : {"A", "B"}, id : {1},
     name : {{}, {"a"}, {"A"}}, tag : {{"x"}, {"y"}}, tags : {{}, {"a"}}]

Env(stmt, row) == [stmt |-> stmt, row |-> row, mut |-> row]

(***************************************************************************)
(* SpecImplicit: INSERT ... UNLESS CONFLICT without a target               *)
(***************************************************************************)
ImplicitKeys == {"px_name", "px_lower", "px_tags", "ox_pair", "ox_name"}

ImplicitSchemas ==
    {[bases |-> HFlat, views |-> vs, decl |-> d] :
        vs \in {{}, {"V"}}, d \in DeclsOver({"C", "B"}, ImplicitKeys, MaxDecls)}

\* the inserts: a shape over name, tag and tags; name may be volatile,
\* empty, or one of two values that differ in case only
ImplicitStmts ==
    {[kind |-> "insert", typ |-> t, shape |-> sh, volatile |-> {}, val |-> v] :
        t \in {"A", "B"}, sh \in SUBSET {"name", "tag", "tags"},
        v \in {{}, {"a"}, {"A"}}}
    \cup
    {[kind |-> "insert", typ |-> t, shape |-> sh \cup {"name"},
      volatile |-> {"name"}, val |-> {"a"}] :
        t \in {"A", "B"}, sh \in SUBSET {"tag", "tags"}}

InitImplicit ==
    /\ schema \in ImplicitSchemas
    /\ dml_stmts = <<>>
    /\ call = NoCall
    /\ ret = NoRet
    /\ emitted = {}

\* one call of compile_insert_unless_conflict
CompileImplicit(stmt) ==
    /\ call.op = "none"
    /\ stmt.val = {} => "name" \in stmt.shape
    /\ stmt.val = {"A"} => "name" \in stmt.shape
    /\ call' = [NoCall EXCEPT !.op = "compile_insert_unless_conflict",
                              !.typ = stmt.typ, !.stmt = stmt]
    /\ ret' = compile_insert_unless_conflict(schema, stmt, stmt.typ)
    /\ UNCHANGED <<schema, dml_stmts, emitted>>

NextImplicit ==
    \E stmt \in ImplicitStmts : CompileImplicit(stmt)

SpecImplicit == InitImplicit /\ [][NextImplicit]_vars

\* C3: always_check is true exactly when some sub-select came from a type
\* other than the subject type or the subject type has a subtype that is
\* not a view; so it is false for a type without subtypes whose selects
\* are all its own, and true for a type with a non-view subtype to which
\* no ancestor contributed.
C3_AlwaysCheckExactly ==
    (call.op = "compile_insert_unless_conflict" /\ ret.kind = "ok") =>
        /\ ret.clause.always_check <=>
              \/ \E i \in DOMAIN ret.clause.frags :
                    ret.clause.frags[i].typ # call.typ
              \/ \E child \in Types :
                    call.typ \in schema.bases[child] /\ child \notin schema.views
        /\ (/\ \A x \in Types : call.typ \notin schema.bases[x]
            /\ \A i \in DOMAIN ret.clause.frags :
                  ret.clause.frags[i].typ = call.typ)
           => ~ret.clause.always_check
        /\ (\E x \in Types : call.typ \in schema.bases[x] /\ x \notin schema.views)
           => ret.clause.always_check

\* C3 witness: the subject type has a non-view subtype, every select is
\* its own, and the clause is always checked
C3_Witness ==
    /\ call.op = "compile_insert_unless_conflict"
    /\ ret.kind = "ok"
    /\ call.typ = "A"
    /\ schema.views = {}
    /\ \A i \in DOMAIN ret.clause.frags : ret.clause.frags[i].typ = call.typ
    /\ ret.clause.always_check

\* the stored objects of the subject type of the call
TypeRows ==
    {r \in Rows : r.typ \in {call.typ} \cup descendants(schema, call.typ)}

\* the insert gives a non-volatile value for the pointer of pointer
\* constraint k, the only exclusive constraint the subject type carries
\* besides the one on id, and a select was produced
SinglePointerCase(k) ==
    /\ call.op = "compile_insert_unless_conflict"
    /\ ret.kind = "ok"
    /\ ret.clause.frags # <<>>
    /\ KeyInfo[k].ptr \notin {"", "id"}
    /\ HasConstr(schema, k, call.typ)
    /\ \A k2 \in Keys \ {k, "px_id"} : ~HasConstr(schema, k2, call.typ)
    /\ KeyInfo[k].ptr \in call.stmt.shape \ call.stmt.volatile

\* C8 as stated: the select returns exactly the objects of the type whose
\* value for the constrained pointer equals the inserted value.
C8_Original_EqualValue ==
    \A k \in Keys : SinglePointerCase(k) =>
        \A r \in TypeRows :
            InResult(schema, ret.clause.frags, Env(call.stmt, r))
                <=> RowVal(r, KeyInfo[k].ptr) = ShapeVal(call.stmt, KeyInfo[k].ptr)

\* the value the constraint compares: its subject expression applied
SubjectValue(k, v) == IF KeyInfo[k].fn = "lower" THEN Lower(v) ELSE v

\* C8: the select returns exactly the objects of the type that have a
\* value of the constrained pointer equal to an inserted value once the
\* constraint's subject expression is applied to both.
C8_EqualUnderSubjectExpr ==
    \A k \in Keys : SinglePointerCase(k) =>
        \A r \in TypeRows :
            InResult(schema, ret.clause.frags, Env(call.stmt, r))
                <=> \E v \in ShapeVal(call.stmt, KeyInfo[k].ptr),
                       w \in RowVal(r, KeyInfo[k].ptr) :
                         SubjectValue(k, v) = SubjectValue(k, w)

\* C8 witness: under a constraint on lower(name) the insert of "A" reports
\* a stored object named "a"
C8_Witness ==
    /\ SinglePointerCase("px_lower")
    /\ call.stmt.val = {"A"}
    /\ \E r \in TypeRows :
          /\ r.name = {"a"}
          /\ InResult(schema, ret.clause.frags, Env(call.stmt, r))

(***************************************************************************)
(* SpecOrder: the same call, for the order of the constraints              *)
(***************************************************************************)
OrderKeys == {"px_name", "px_lower", "ox_pair", "ox_name"}

OrderSchemas ==
    {[bases |-> HFlat, views |-> {}, decl |-> d] :
        d \in DeclsOver({"C", "B"}, OrderKeys, MaxDecls)}

OrderStmts == {stmt \in ImplicitStmts : "tags" \notin stmt.shape}

InitOrder ==
    /\ schema \in OrderSchemas
    /\ dml_stmts = <<>>
    /\ call = NoCall
    /\ ret = NoRet
    /\ emitted = {}

NextOrder ==
    \E stmt \in OrderStmts : CompileImplicit(stmt)

SpecOrder == InitOrder /\ [][NextOrder]_vars

\* the stored objects the order checks range over
OrderRows == {r \in Rows : r.tags = {}}

\* what a compiled select reports: how the call ended and the stored
\* objects its selects return
Outcome(sel) ==
    [kind |-> sel.kind,
     rows |-> {r \in OrderRows : InResult(schema, sel.frags, Env(call.stmt, r))}]

\* the pointer constraints with every constraint list reversed
ReverseEach(constrs) ==
    [i \in DOMAIN constrs |->
        [constrs[i] EXCEPT !.cs =
            [j \in DOMAIN constrs[i].cs |->
                constrs[i].cs[Len(constrs[i].cs) + 1 - j]]]]

\* the outcomes of the call over every order of its inputs
OutcomesOverOrders ==
    {Outcome(compile_conflict_select(schema, call.stmt, call.typ,
                 FALSE, FALSE, po, pc)) :
        pc \in Perms(_get_exclusive_ptr_constraints(schema, call.typ)),
        po \in Perms(obj_constraints(schema, call.typ))}
    \cup
    {Outcome(compile_conflict_select(schema, call.stmt, call.typ,
                 FALSE, FALSE, po, ReverseEach(pc))) :
        pc \in Perms(_get_exclusive_ptr_constraints(schema, call.typ)),
        po \in Perms(obj_constraints(schema, call.typ))}
    \cup
    {Outcome(select_of_maps(schema, call.stmt, call.typ, FALSE, FALSE, pm)) :
        pm \in Perms(ret.type_maps)}

\* C9: the stored objects reported do not depend on the order of the
\* pointer constraints, of the constraints of one pointer, of the object
\* constraints, or of the declaring-type buckets.
C9_OrderIndependent ==
    call.op = "compile_insert_unless_conflict" =>
        OutcomesOverOrders =
            {[kind |-> ret.kind,
              rows |-> {r \in OrderRows :
                          InResult(schema, ret.clause.frags, Env(call.stmt, r))}]}

\* C9 witness: one bucket holds a pointer constraint on name and the
\* object constraint on (name, tag); the shape gives no tag, so the
\* predicate of the object constraint is empty, and a stored object is
\* reported all the same
C9_Witness ==
    /\ call.op = "compile_insert_unless_conflict"
    /\ ret.kind = "ok"
    /\ \E i \in DOMAIN ret.type_maps :
          /\ Len(ret.type_maps[i].map) >= 1
          /\ \E j \in DOMAIN ret.type_maps[i].objs :
                ret.type_maps[i].objs[j].key = "ox_pair"
    /\ "name" \in call.stmt.shape /\ "tag" \notin call.stmt.shape
    /\ \E r \in OrderRows : InResult(schema, ret.clause.frags, Env(call.stmt, r))

(***************************************************************************)
(* SpecQuery: the statements of one query compiled one after the other     *)
(***************************************************************************)
QuerySchemas ==
    {[bases |-> h, views |-> {"V"}, decl |-> d] :
        h \in {HFlat, HDeep},
        d \in DeclsOver({"C", "M"}, {"px_name", "ox_pair"}, MaxDecls)}

\* inserts into and updates of A and B that write name and tag or nothing,
\* and an insert into B with a volatile name
QueryStmts ==
    {[kind |-> kd, typ |-> t, shape |-> sh, volatile |-> {}, val |-> {"a"}] :
        kd \in {"insert", "update"}, t \in {"A", "B"},
        sh \in {{}, {"name", "tag"}}}
    \cup
    {[kind |-> "insert", typ |-> "B", shape |-> {"name"},
      volatile |-> {"name"}, val |-> {"a"}]}

InitQuery ==
    /\ schema \in QuerySchemas
    /\ dml_stmts = <<>>
    /\ call = NoCall
    /\ ret = NoRet
    /\ emitted = {}

Raised(r) == r.kind \in {"QueryError", "UnsupportedFeatureError"}

\* the statements the check of stmt sees: an update is in dml_stmts
\* before its check, an insert after it
dml_seen(stmt, dml) ==
    IF stmt.kind = "update" THEN Append(dml, stmt) ELSE dml

\* the compilation of one more mutating statement: its inheritance check,
\* the clauses of which are attached to the statement, and its entry in
\* dml_stmts.  An error ends the compilation of the query
CompileStmt(stmt) ==
    /\ Len(dml_stmts) < MaxStmts
    /\ ~Raised(ret)
    /\ call' = [NoCall EXCEPT !.op = "compile_inheritance_conflict_checks",
                              !.typ = stmt.typ, !.stmt = stmt]
    /\ ret' = compile_inheritance_conflict_checks(schema, stmt, stmt.typ,
                                                  dml_seen(stmt, dml_stmts))
    /\ dml_stmts' = IF Raised(ret') /\ stmt.kind = "insert" THEN dml_stmts
                    ELSE Append(dml_stmts, stmt)
    /\ emitted' = emitted \cup
                    {[stmt |-> Len(dml_stmts) + 1, of |-> c] : c \in ret'.clauses}
    /\ UNCHANGED schema

NextQuery ==
    \E stmt \in QueryStmts : CompileStmt(stmt)

SpecQuery == InitQuery /\ [][NextQuery]_vars

\* the clauses emitted with an override set
WithOverrideSet == {e \in emitted : e.of.clause.update_query_set # "None"}

RECURSIVE AnchorSources(_)
\* where the anchors of an expression take their values from
AnchorSources(e) ==
    CASE e.k = "anchor" -> {e.src}
      [] e.k = "fn" -> UNION {AnchorSources(e.args[i]) : i \in DOMAIN e.args}
      [] e.k = "set" ->
            UNION {AnchorSources(e.elements[i]) : i \in DOMAIN e.elements}
      [] e.k = "binop" -> AnchorSources(e.left) \cup AnchorSources(e.right)
      [] OTHER -> {}

\* C7: a select compiled with an override set never returns the mutated
\* row itself: its filter is the constraint predicates AND
\* `id anchor != .id`, the id anchor (like every other) taken from the
\* override set.
C7_SelfExcluded ==
    \A e \in WithOverrideSet :
        /\ dml_stmts[e.stmt].kind = "update"
        /\ e.of.clause.frags # <<>>
        /\ \A i \in DOMAIN e.of.clause.frags :
              /\ e.of.clause.frags[i].where.k = "binop"
              /\ e.of.clause.frags[i].where.op = "AND"
              /\ e.of.clause.frags[i].where.right =
                    BinOp("!=", Anchor("id", "fake"), PartialPtr("id"))
              /\ AnchorSources(e.of.clause.frags[i].where) = {"fake"}
              /\ \A m \in Rows :
                    ~InSelect(schema, e.of.clause.frags[i],
                              Env(dml_stmts[e.stmt], m))

\* C7 witness: a clause with an override set whose constraint predicates
\* all hold of a row compared with itself
C7_Witness ==
    \E e \in WithOverrideSet :
        \E m \in Rows :
            /\ m.typ \in {e.of.clause.frags[1].typ}
                           \cup descendants(schema, e.of.clause.frags[1].typ)
            /\ Eval(e.of.clause.frags[1].where.left,
                    Env(dml_stmts[e.stmt], m)) = {TRUE}

\* A and B have a parent in common and inherit the object constraint on
\* (name, tag), declared on C and nowhere else, the only exclusive
\* constraint there is besides the one on id
SiblingsInheritFromC ==
    /\ schema.bases["A"] \cap schema.bases["B"] # {}
    /\ "C" \in ancestors(schema, "A") \cap ancestors(schema, "B")
    /\ \A t \in UserTypes, k \in Keys \ {"px_id"} :
          schema.decl[t][k] = (IF t = "C" /\ k = "ox_pair" THEN "own" ELSE "none")

\* C10: siblings A and B inherit one object constraint from C; after an
\* insert into A and then an insert into B, both giving name and tag
\* stable values, the query has exactly one inheritance clause and it
\* carries the constraint of C.
C10_OneClauseForSiblings ==
    (/\ SiblingsInheritFromC
     /\ Len(dml_stmts) = 2
     /\ dml_stmts[1] = [kind |-> "insert", typ |-> "A", shape |-> {"name", "tag"},
                        volatile |-> {}, val |-> {"a"}]
     /\ dml_stmts[2] = [kind |-> "insert", typ |-> "B", shape |-> {"name", "tag"},
                        volatile |-> {}, val |-> {"a"}])
    => /\ Cardinality(emitted) = 1
       /\ \A e \in emitted : e.of.clause.constraint = Constr("ox_pair", "C")

\* the same where C is the parent of A and B
C10_OneClauseWhenParentDeclares ==
    (/\ SiblingsInheritFromC
     /\ schema.bases["A"] = {"C"} /\ schema.bases["B"] = {"C"}
     /\ Len(dml_stmts) = 2
     /\ dml_stmts[1].kind = "insert" /\ dml_stmts[1].typ = "A"
     /\ dml_stmts[1].shape # {}
     /\ dml_stmts[2].kind = "insert" /\ dml_stmts[2].typ = "B"
     /\ dml_stmts[2].shape # {})
    => /\ Cardinality(emitted) = 1
       /\ \A e \in emitted : e.of.clause.constraint = Constr("ox_pair", "C")

\* the constraints enforced at a type, other than BaseObject, from which
\* both the first and the second statement's type descend
SharedEnforced ==
    {Constr(k, anc) : k \in Keys \ {"px_id"},
                      anc \in (ancestors(schema, dml_stmts[1].typ)
                                 \cap ancestors(schema, dml_stmts[2].typ))
                              \ {BaseObject}}
      \cap {c \in [key : Keys, on : Types] :
                HasConstr(schema, c.key, c.on) /\ _constr_matters(schema, c)}

\* C11: two statements on distinct non-view types that share an ancestor
\* enforcing an exclusive constraint: the check of the later one, whose
\* shape is non-empty and not volatile, emits a clause tagged with that
\* constraint, also when the ancestor lies above the nearest common
\* ancestor of the two types.
C11_ClauseForEverySharedConstraint ==
    (/\ Len(dml_stmts) = 2
     /\ dml_stmts[1].typ # dml_stmts[2].typ
     /\ dml_stmts[2].shape # {}
     /\ dml_stmts[2].volatile = {})
    => \A c \in SharedEnforced :
          \E e \in emitted : e.stmt = 2 /\ e.of.clause.constraint = c

\* the same for a constraint enforced at a nearest common ancestor
C11_ClauseForNearestAncestorConstraint ==
    (/\ Len(dml_stmts) = 2
     /\ dml_stmts[1].typ # dml_stmts[2].typ
     /\ dml_stmts[2].shape # {}
     /\ dml_stmts[2].volatile = {})
    => \A c \in SharedEnforced :
          c.on \in get_class_nearest_common_ancestors(
                       schema, dml_stmts[1].typ, dml_stmts[2].typ)
          => \E e \in emitted : e.stmt = 2 /\ e.of.clause.constraint = c

(***************************************************************************)
(* SpecSelect: one call of _compile_conflict_select on one bucket          *)
(***************************************************************************)
SelectKeys == {"px_name", "px_lower", "px_tags", "px_full", "ox_pair", "ox_const"}

\* the buckets: at least one and at most MaxDecls constraints of one type
SelectBuckets ==
    {K \in SUBSET SelectKeys : 1 <= Cardinality(K) /\ Cardinality(K) <= MaxDecls}

\* the pointer constraints of bucket K: a map from pointer name to the
\* pointer and its constraints
bucket_constrs(K, typ) ==
    SelectSeq([i \in DOMAIN PtrOrder |->
                  [name |-> PtrOrder[i],
                   ptr |-> [name |-> PtrOrder[i], source |-> typ],
                   cs |-> [j \in DOMAIN SelectSeq(KeyOrder,
                                LAMBDA k : k \in K /\ KeyInfo[k].ptr = PtrOrder[i]) |->
                             Constr(SelectSeq(KeyOrder,
                                LAMBDA k : k \in K /\ KeyInfo[k].ptr = PtrOrder[i])[j],
                                    typ)]]],
              LAMBDA e : e.cs # <<>>)

\* the object constraints of bucket K
bucket_obj_constrs(K, typ) ==
    [j \in DOMAIN SelectSeq(KeyOrder, LAMBDA k : k \in K /\ KeyInfo[k].ptr = "") |->
        Constr(SelectSeq(KeyOrder, LAMBDA k : k \in K /\ KeyInfo[k].ptr = "")[j], typ)]

\* the statements: a shape over name, tag, tags and the computed pointer
\* full, at most one entry of it volatile
SelectStmts ==
    {[kind |-> kd, typ |-> "C", shape |-> sh, volatile |-> vo, val |-> {"a"}] :
        kd \in {"insert", "update"},
        sh \in SUBSET {"name", "tag", "tags", "full"},
        vo \in {{}} \cup {{p} : p \in {"name", "tag", "tags", "full"}}}

InitSelect ==
    /\ schema = [bases |-> HFlat, views |-> {}, decl |-> NoDecl]
    /\ dml_stmts = <<>>
    /\ call = NoCall
    /\ ret = NoRet
    /\ emitted = {}

\* one call; an override set is given exactly for the inheritance check
\* of an update, and only inserts have checks of their own
Synthesize(stmt, for_inheritance, fake_dml_set, K) ==
    /\ call.op = "none"
    /\ stmt.volatile \subseteq stmt.shape
    /\ fake_dml_set <=> stmt.kind = "update"
    /\ fake_dml_set => for_inheritance
    /\ call' = [op |-> "_compile_conflict_select", typ |-> stmt.typ, stmt |-> stmt,
                for_inheritance |-> for_inheritance,
                fake_dml_set |-> fake_dml_set,
                constrs |-> bucket_constrs(K, stmt.typ),
                obj_constrs |-> bucket_obj_constrs(K, stmt.typ)]
    /\ ret' = _compile_conflict_select(stmt, stmt.typ, for_inheritance,
                  fake_dml_set, bucket_obj_constrs(K, stmt.typ),
                  bucket_constrs(K, stmt.typ))
    /\ UNCHANGED <<schema, dml_stmts, emitted>>

NextSelect ==
    \E stmt \in SelectStmts, for_inheritance \in BOOLEAN,
       fake_dml_set \in BOOLEAN, K \in SelectBuckets :
         Synthesize(stmt, for_inheritance, fake_dml_set, K)

SpecSelect == InitSelect /\ [][NextSelect]_vars

\* the call under observation and what it needs
Synthesized == call.op = "_compile_conflict_select"
NeededPtrs == closure_of(needed_ptrs_of(call.obj_constrs, call.constrs)).needed_ptrs

\* the needed pointers whose anchor is the value the shape gives them:
\* no override set is given and the pointer is not computed
AnchoredFromShape ==
    {p \in call.stmt.shape \cap NeededPtrs :
        ~call.fake_dml_set /\ get_expr(p).k = "none"}

\* C12: a volatile shape value of a needed pointer that is anchored from
\* the shape makes _compile_conflict_select raise UnsupportedFeatureError,
\* with the inheritance message when for_inheritance and the ON message
\* otherwise, and no query is built; a volatile shape entry of a pointer
\* that is not needed, or that the override set anchors, raises no error.
C12_VolatileAnchorRaises ==
    Synthesized =>
        /\ AnchoredFromShape \cap call.stmt.volatile # {}
             => /\ ret.kind = "UnsupportedFeatureError"
                /\ ret.msg = (IF call.for_inheritance THEN MsgVolatileInheritance
                              ELSE MsgVolatileOn)
                /\ ret.select = NoExpr
        /\ (\A p \in call.stmt.volatile : p \notin NeededPtrs \/ call.fake_dml_set)
             => ret.kind # "UnsupportedFeatureError"

\* a volatile needed pointer raised the inheritance message
C12_Witness ==
    /\ Synthesized
    /\ AnchoredFromShape \cap call.stmt.volatile # {}
    /\ call.for_inheritance
    /\ ret.msg = MsgVolatileInheritance

\* a volatile needed pointer under an override set raised nothing
C12_WitnessOverride ==
    /\ Synthesized
    /\ call.fake_dml_set
    /\ call.stmt.volatile \cap NeededPtrs # {}
    /\ ret.kind = "ok"

\* the statements in dml_stmts when the check of statement n runs
SeenBy(n) ==
    1 .. (IF dml_stmts[n].kind = "update" THEN n ELSE n - 1)

\* the types both x and y are or descend from, BaseObject left out
SharedAncestors(x, y) ==
    (({x} \cup ancestors(schema, x)) \cap ({y} \cup ancestors(schema, y)))
        \ {BaseObject}

\* C13: every inheritance clause names one constraint, which the shared
\* ancestor of the pair carries and for which _constr_matters holds; it
\* has always_check false and no else branch; its else_fail is a statement
\* of dml_stmts, seen by the check, one of whose types forms the pair with
\* a type of the checked statement; and its select is not empty.
C13_InheritanceClauseShape ==
    \A e \in emitted :
        /\ e.of.clause.constraint \in [key : Keys \ {"px_id"}, on : UserTypes]
        /\ e.of.clause.constraint.on = e.of.anc_type
        /\ HasConstr(schema, e.of.clause.constraint.key, e.of.anc_type)
        /\ _constr_matters(schema, e.of.clause.constraint)
        /\ e.of.clause.always_check = FALSE
        /\ e.of.clause.else_ir = FALSE
        /\ e.of.clause.else_fail \in SeenBy(e.stmt)
        /\ \E st \in subject_stypes_of(schema, dml_stmts[e.stmt],
                                       dml_stmts[e.stmt].typ),
              t \in typs_of(schema, dml_stmts[e.of.clause.else_fail]) :
                /\ e.of.subject_stype = st
                /\ e.of.anc_type \in SharedAncestors(st, t)
        /\ e.of.clause.frags # <<>>
        /\ \A i \in DOMAIN e.of.clause.frags :
              e.of.clause.frags[i].k = "select"

\* C13 witness: an insert after an insert into a sibling got a clause, and
\* the ancestor also carries a constraint that is not enforced there
C13_Witness ==
    \E e \in emitted :
        /\ dml_stmts[e.stmt].kind = "insert"
        /\ dml_stmts[e.of.clause.else_fail].kind = "insert"
        /\ e.of.clause.else_fail < e.stmt
        /\ \E k \in Keys \ {"px_id"} :
              /\ HasConstr(schema, k, e.of.anc_type)
              /\ ~_constr_matters(schema, Constr(k, e.of.anc_type))

\* constraint k is enforced at the subject type of the call or above it
EnforcedInLineage(k) ==
    \E x \in {call.typ} \cup ancestors(schema, call.typ) :
        HasConstr(schema, k, x) /\ _constr_matters(schema, Constr(k, x))

\* C14: compile_insert_unless_conflict returns a clause whose constraint is
\* None and that has no else branch; the select is built from every
\* exclusive constraint of every pointer of the type but `id`, and from
\* every object constraint: each of them that is enforced somewhere in the
\* lineage has a bucket, and the constraint on `id` has none.
C14_ImplicitClauseFromAllConstraints ==
    (call.op = "compile_insert_unless_conflict" /\ ret.kind = "ok") =>
        /\ ret.clause.constraint = "None"
        /\ ret.clause.else_ir = FALSE
        /\ HasConstr(schema, "px_id", call.typ)
        /\ BucketsOf("px_id") = {}
        /\ \A k \in Keys \ {"px_id"} :
              BucketsOf(k) # {} <=> EnforcedInLineage(k)

\* C14 witness: the type has a pointer constraint and an object constraint
\* besides the one on id, and the clause was returned
C14_Witness ==
    /\ call.op = "compile_insert_unless_conflict"
    /\ ret.kind = "ok"
    /\ ret.clause.frags # <<>>
    /\ \E k \in Keys \ {"px_id"} : KeyInfo[k].ptr # "" /\ BucketsOf(k) # {}
    /\ \E k \in Keys : KeyInfo[k].ptr = "" /\ BucketsOf(k) # {}

\* the call got as far as line 141: it did not raise on a volatile value
\* and did not return early on an empty shape
AnchorsResolved ==
    /\ Synthesized
    /\ ret.kind # "UnsupportedFeatureError"
    /\ ~(call.for_inheritance /\ call.stmt.shape = {})

\* the anchor map of the call at line 141
PtrAnchors ==
    ptr_anchors_of(call.stmt, call.fake_dml_set, call.obj_constrs, call.constrs)

\* C15 as stated: the anchor of a needed pointer is the override path if
\* there is an override set, else the shape's value if the shape has one,
\* else the defining expression of a computed pointer, else an empty set.
C15_Original_ShapeBeforeComputed ==
    AnchorsResolved =>
        \A p \in NeededPtrs :
            PtrAnchors[p] =
                IF call.fake_dml_set THEN Anchor(p, "fake")
                ELSE IF p \in call.stmt.shape THEN Anchor(p, "shape")
                ELSE IF get_expr(p).k # "none" THEN get_expr(p)
                ELSE EmptyCast(p)

\* C15, amended: the anchor of a needed pointer is the override path if
\* there is an override set, else the defining expression if the pointer
\* is computed, else the shape's value if the shape has one, else an empty
\* set; with an override set every needed pointer, computed or not, and
\* `id` are anchored to the override path.
C15_ComputedBeforeShape ==
    AnchorsResolved =>
        /\ DOMAIN PtrAnchors =
              NeededPtrs \cup (IF call.fake_dml_set THEN {"id"} ELSE {})
        /\ \A p \in DOMAIN PtrAnchors :
              PtrAnchors[p] =
                  IF call.fake_dml_set THEN Anchor(p, "fake")
                  ELSE IF get_expr(p).k # "none" THEN get_expr(p)
                  ELSE IF p \in call.stmt.shape THEN Anchor(p, "shape")
                  ELSE EmptyCast(p)

\* C15 witness: a computed pointer that the shape mentions too is needed,
\* there is no override set, and the predicate returned compares the
\* defining expression of the pointer
C15_Witness ==
    /\ AnchorsResolved
    /\ ~call.fake_dml_set
    /\ "full" \in NeededPtrs \cap call.stmt.shape
    /\ call.stmt.shape = {"full", "name"}
    /\ ret.kind = "ok"
    /\ ret.select.where =
          BinOp("=", FunctionCall("tuple", <<Anchor("name", "shape"), EmptyCast("tag")>>),
                PartialPtr("full"))

\* a computed pointer under an override set is anchored to the override
\* path
C15_WitnessOverride ==
    /\ AnchorsResolved
    /\ call.fake_dml_set
    /\ "full" \in NeededPtrs
    /\ PtrAnchors["full"] = Anchor("full", "fake")

\* the filter ends in the conjunct that excludes the mutated row
HasSelfExclusion(where) ==
    /\ where.k = "binop"
    /\ where.op = "AND"
    /\ where.right = BinOp("!=", Anchor("id", "fake"), PartialPtr("id"))

\* C16 as stated: a clause has an override set exactly when the other
\* statement of the pair, its else_fail, is an update; when that one is an
\* insert there is no override set and no self-exclusion conjunct.
C16_Original_OverrideSetForOtherUpdate ==
    \A e \in emitted :
        /\ e.of.clause.update_query_set # "None"
              <=> dml_stmts[e.of.clause.else_fail].kind = "update"
        /\ dml_stmts[e.of.clause.else_fail].kind = "insert" =>
              \A i \in DOMAIN e.of.clause.frags :
                  ~HasSelfExclusion(e.of.clause.frags[i].where)

\* C16, amended: a clause has an override set exactly when the statement
\* being checked is an update, whatever the other statement is; the
\* override set selects the subject type of the pair, and every select of
\* the clause ends in the self-exclusion conjunct.  For an insert there is
\* no override set, no anchor off one and no self-exclusion conjunct.
C16_OverrideSetForCheckedUpdate ==
    \A e \in emitted :
        /\ e.of.clause.update_query_set # "None"
              <=> dml_stmts[e.stmt].kind = "update"
        /\ dml_stmts[e.stmt].kind = "update" =>
              /\ e.of.clause.update_query_set = e.of.subject_stype
              /\ \A i \in DOMAIN e.of.clause.frags :
                    HasSelfExclusion(e.of.clause.frags[i].where)
        /\ dml_stmts[e.stmt].kind = "insert" =>
              \A i \in DOMAIN e.of.clause.frags :
                  /\ ~HasSelfExclusion(e.of.clause.frags[i].where)
                  /\ "fake" \notin AnchorSources(e.of.clause.frags[i].where)

\* C16 witness: the check of an update against an earlier insert gave a
\* clause with an override set
C16_Witness ==
    \E e \in emitted :
        /\ dml_stmts[e.stmt].kind = "update"
        /\ dml_stmts[e.of.clause.else_fail].kind = "insert"
        /\ e.of.clause.update_query_set # "None"

\* the check of an insert against an earlier update gave a clause without
\* an override set
C16_WitnessInsertAfterUpdate ==
    \E e \in emitted :
        /\ dml_stmts[e.stmt].kind = "insert"
        /\ dml_stmts[e.of.clause.else_fail].kind = "update"
        /\ e.of.clause.update_query_set = "None"

\* the bucket holds only constraints on pointers that are not computed
OnlyPlainPointerConstraints ==
    /\ call.obj_constrs = <<>>
    /\ \A i \in DOMAIN call.constrs : get_expr(call.constrs[i].name).k = "none"

\* C17 as stated: in an inheritance check, a shape that mentions none of
\* the needed pointers, empty or not, makes _compile_conflict_select
\* return None, for pointer and for object constraints.
C17_Original_NoneWhenNoNeededPointer ==
    (Synthesized /\ call.for_inheritance /\ call.stmt.shape \cap NeededPtrs = {})
        => ret = ReturnNone

\* C17, amended: in an inheritance check an empty shape makes
\* _compile_conflict_select return None, for pointer and for object
\* constraints, with or without an override set.  A shape that is not
\* empty and mentions no needed pointer gives None only when there is no
\* override set and the bucket holds nothing but constraints on pointers
\* that are not computed; otherwise the call does not return None: it
\* builds a query over empty sets or override paths, or raises the
\* matching-shape error when no pointer is needed at all.
C17_NoneWhenShapeEmpty ==
    (Synthesized /\ call.for_inheritance) =>
        /\ call.stmt.shape = {} => ret = ReturnNone
        /\ (/\ call.stmt.shape \cap NeededPtrs = {}
            /\ ~call.fake_dml_set
            /\ OnlyPlainPointerConstraints) => ret = ReturnNone
        /\ (/\ call.stmt.shape # {}
            /\ call.stmt.shape \cap NeededPtrs = {}
            /\ (call.fake_dml_set \/ ~OnlyPlainPointerConstraints))
           => /\ ret.kind \in {"ok", "QueryError"}
              /\ ret.kind = "QueryError" <=> NeededPtrs = {} /\ ~call.fake_dml_set

\* C17 witness: an inheritance check of an empty shape against an object
\* constraint returned None
C17_Witness ==
    /\ Synthesized
    /\ call.for_inheritance
    /\ call.stmt.shape = {}
    /\ call.obj_constrs # <<>>
    /\ NeededPtrs # {}
    /\ ret = ReturnNone

\* an inheritance check of an insert whose shape mentions only pointers
\* that are not needed built a query for an object constraint
C17_WitnessQueryBuilt ==
    /\ Synthesized
    /\ call.for_inheritance
    /\ ~call.fake_dml_set
    /\ call.stmt.shape # {}
    /\ call.stmt.shape \cap NeededPtrs = {}
    /\ call.obj_constrs # <<>>
    /\ ret.kind = "ok"

\* the same shape against a pointer constraint returned None
C17_WitnessPointerNone ==
    /\ Synthesized
    /\ call.for_inheritance
    /\ call.stmt.shape # {}
    /\ call.stmt.shape \cap NeededPtrs = {}
    /\ OnlyPlainPointerConstraints
    /\ ret = ReturnNone

\* C18: when the anchors of a bucket of at least one constraint have all
\* been resolved and the anchor map is empty, _compile_conflict_select
\* raises QueryError with the matching-shape message and returns no query;
\* a query is never returned from an empty anchor map.
C18_EmptyAnchorMapRaises ==
    (AnchorsResolved /\ Len(call.constrs) + Len(call.obj_constrs) >= 1) =>
        /\ DOMAIN PtrAnchors = {}
              => ret = Raise("QueryError", MsgMatchingShape)
        /\ ret.kind = "ok" => DOMAIN PtrAnchors # {}
        /\ ret.kind = "QueryError" => DOMAIN PtrAnchors = {}

\* C18 witness: a bucket whose only constraint reads no pointer, a shape
\* that is not empty, and the error
C18_Witness ==
    /\ AnchorsResolved
    /\ call.obj_constrs # <<>>
    /\ call.stmt.shape # {}
    /\ DOMAIN PtrAnchors = {}
    /\ ret = Raise("QueryError", MsgMatchingShape)

\* the filter of the returned select without the self-exclusion conjunct
ReturnedFilter ==
    IF call.fake_dml_set THEN ret.select.where.left ELSE ret.select.where

\* the predicates the call produced, read off what it returned
ReturnedConds ==
    IF ret.kind # "ok" THEN <<>>
    ELSE IF ReturnedFilter.k = "fn" /\ ReturnedFilter.fn = "any"
    THEN ReturnedFilter.args[1].elements
    ELSE <<ReturnedFilter>>

\* those of the pointer constraints: the object constraints come last,
\* one predicate each
ReturnedPtrConds ==
    SubSeq(ReturnedConds, 1, Len(ReturnedConds) - Len(call.obj_constrs))

\* the predicate `anchor OP .pointer` of pointer p and constraint c
ExpectedCond(p, c) ==
    BinOp(IF is_single(p) THEN "=" ELSE "IN",
          IF get_subjectexpr(c).k = "none"
          THEN subject_paths_substitute(PtrAnchors[p], PtrAnchors)
          ELSE subject_substitute(get_subjectexpr(c),
                   subject_paths_substitute(PtrAnchors[p], PtrAnchors)),
          IF get_subjectexpr(c).k = "none" THEN PartialPtr(p)
          ELSE subject_substitute(get_subjectexpr(c), PartialPtr(p)))

\* the call went through the loop over the pointer constraints
CondsBuilt == AnchorsResolved /\ ret.kind \in {"ok", "None"}

\* C19 as stated: every (pointer, constraint) pair of the bucket has
\* exactly one predicate, whatever the source of the pointer's anchor.
C19_Original_OnePredicatePerPair ==
    CondsBuilt =>
        ReturnedPtrConds =
            Flatten([i \in DOMAIN call.constrs |->
                [j \in DOMAIN call.constrs[i].cs |->
                    ExpectedCond(call.constrs[i].name, call.constrs[i].cs[j])]])

\* the anchor of p is an override path, a shape value or a defining
\* expression, not the empty default
HasOwnAnchor(p) ==
    call.fake_dml_set \/ p \in call.stmt.shape \/ get_expr(p).k # "none"

\* C19, amended: every (pointer, constraint) pair whose pointer has an
\* anchor from the override set, the shape or a defining expression has
\* exactly one predicate `anchor OP .pointer`, OP being `=` for a single
\* pointer and `IN` for a multi one, both sides put into the subject
\* expression of the constraint when there is one; a pair whose pointer
\* only has the empty default has no predicate.
C19_OnePredicatePerAnchoredPair ==
    CondsBuilt =>
        ReturnedPtrConds =
            Flatten([i \in DOMAIN call.constrs |->
                IF HasOwnAnchor(call.constrs[i].name)
                THEN [j \in DOMAIN call.constrs[i].cs |->
                        ExpectedCond(call.constrs[i].name, call.constrs[i].cs[j])]
                ELSE <<>>])

\* C19 witness: a bucket with two constraints on name, one of them on
\* lower(name), and one on the multi pointer tags; the shape gives both
\* pointers and three predicates came back
C19_Witness ==
    /\ CondsBuilt
    /\ MaxDecls >= 2
    /\ \E i \in DOMAIN call.constrs :
          /\ call.constrs[i].name = "tags"
          /\ "tags" \in call.stmt.shape
    /\ \E i \in DOMAIN call.constrs :
          /\ call.constrs[i].name = "name"
          /\ call.constrs[i].cs[1].key = "px_lower"
          /\ "name" \in call.stmt.shape
    /\ Len(ReturnedPtrConds) = 2
    /\ \E n \in DOMAIN ReturnedPtrConds : ReturnedPtrConds[n].op = "IN"

\* a pointer constraint whose pointer only has the empty default came
\* back without a predicate, next to an object constraint
C19_WitnessNoPredicate ==
    /\ CondsBuilt
    /\ ret.kind = "ok"
    /\ call.constrs # <<>>
    /\ \A i \in DOMAIN call.constrs : ~HasOwnAnchor(call.constrs[i].name)
    /\ ReturnedPtrConds = <<>>

\* the predicates the bucket gives rise to: those of the pointer
\* constraints whose pointer has an anchor of its own, then one for each
\* object constraint
ProducedConds ==
    Flatten([i \in DOMAIN call.constrs |->
        IF HasOwnAnchor(call.constrs[i].name)
        THEN [j \in DOMAIN call.constrs[i].cs |->
                ExpectedCond(call.constrs[i].name, call.constrs[i].cs[j])]
        ELSE <<>>])
    \o [j \in DOMAIN call.obj_constrs |->
          BinOp("=",
                subject_paths_substitute(get_subjectexpr(call.obj_constrs[j]),
                                         PtrAnchors),
                subject_substitute(get_subjectexpr(call.obj_constrs[j]),
                                   [k |-> "type", typ |-> call.typ]))]

\* some predicate holds of the stored object m
SomeCondHolds(m) ==
    \E n \in DOMAIN ProducedConds :
        TRUE \in Eval(ProducedConds[n], Env(call.stmt, m))

\* C20: with no predicate _compile_conflict_select returns None; with one
\* the filter is that predicate; with more the filter is one call of `any`
\* on the set of the predicates, not a chain of OR, so that it holds of a
\* stored object as soon as one predicate holds, even when another
\* predicate evaluates to the empty set.
C20_FilterIsAnyOverSet ==
    CondsBuilt =>
        /\ ProducedConds = <<>> <=> ret = ReturnNone
        /\ Len(ProducedConds) = 1 =>
              ret.kind = "ok" /\ ReturnedFilter = ProducedConds[1]
        /\ Len(ProducedConds) >= 2 =>
              /\ ret.kind = "ok"
              /\ ReturnedFilter =
                    FunctionCall("any", <<[k |-> "set", elements |-> ProducedConds]>>)
        /\ ret.kind = "ok" =>
              \A m \in Rows :
                  TRUE \in Eval(ReturnedFilter, Env(call.stmt, m))
                      <=> SomeCondHolds(m)

\* C20 witness: two predicates, and a stored object of which one
\* evaluates to the empty set and the other holds
C20_Witness ==
    /\ CondsBuilt
    /\ ret.kind = "ok"
    /\ Len(ProducedConds) = 2
    /\ \E m \in Rows :
          /\ Eval(ProducedConds[1], Env(call.stmt, m)) = {}
          /\ TRUE \in Eval(ProducedConds[2], Env(call.stmt, m))
          /\ TRUE \in Eval(ReturnedFilter, Env(call.stmt, m))

\* exactly one predicate came back alone
C20_WitnessSingle ==
    /\ CondsBuilt
    /\ Len(ProducedConds) = 1
    /\ ret.kind = "ok"
    /\ ReturnedFilter.k = "binop"

(***************************************************************************)
(* SpecPairs: statements on related and unrelated types, views included    *)
(***************************************************************************)
PairSchemas ==
    {[bases |-> h, views |-> {"V"}, decl |-> d] :
        h \in {HFlat, HDeep, HDiamond},
        d \in DeclsOver({"C", "M"}, {"px_name"}, MaxDecls)}

\* inserts into and updates of C, M, A and B that write name and tag, an
\* insert into B that writes nothing and an update through the view V
PairStmts ==
    {[kind |-> kd, typ |-> t, shape |-> {"name", "tag"}, volatile |-> {},
      val |-> {"a"}] : kd \in {"insert", "update"}, t \in {"C", "M", "A", "B"}}
    \cup
    {[kind |-> "insert", typ |-> "B", shape |-> {}, volatile |-> {}, val |-> {"a"}],
     [kind |-> "update", typ |-> "V", shape |-> {"name", "tag"}, volatile |-> {},
      val |-> {"a"}]}

InitPairs ==
    /\ schema \in PairSchemas
    /\ dml_stmts = <<>>
    /\ call = NoCall
    /\ ret = NoRet
    /\ emitted = {}

NextPairs ==
    \/ \E stmt \in PairStmts : CompileStmt(stmt)
    \/ \E stmt \in {x \in PairStmts : x.kind = "insert"} : CompileImplicit(stmt)

SpecPairs == InitPairs /\ [][NextPairs]_vars

\* the last call was an inheritance check
Checked == call.op = "compile_inheritance_conflict_checks"

\* the statements of dml_stmts the last check saw, by position
SeenByCall ==
    1 .. (IF call.stmt.kind = "update" \/ Raised(ret) THEN Len(dml_stmts)
          ELSE Len(dml_stmts) - 1)

\* the types the checked statement may write
CurrentCandidates ==
    {call.typ} \cup
        (IF call.stmt.kind = "update" THEN descendants(schema, call.typ) ELSE {})

\* the types statement i of dml_stmts may write; a view stands for the
\* type it derives from
OtherCandidates(i) ==
    {get_nearest_non_derived_parent(schema, dml_stmts[i].typ)} \cup
        (IF dml_stmts[i].kind = "update"
         THEN descendants(schema,
                  get_nearest_non_derived_parent(schema, dml_stmts[i].typ))
         ELSE {})

\* the pairs of candidate types that are looked at: no view, and not the
\* same type written by two statements neither of which is an update
CandidatePairs(i) ==
    {pr \in CurrentCandidates \X OtherCandidates(i) :
        /\ pr[1] \notin schema.views
        /\ pr[2] \notin schema.views
        /\ ~(/\ pr[1] = pr[2]
             /\ call.stmt.kind # "update"
             /\ dml_stmts[i].kind # "update")}

\* C21: nothing to do is not an error.  compile_insert_unless_conflict on
\* a type none of whose constraints, `id` apart, is enforced in its lineage
\* returns a clause whose select is the empty union;
\* compile_inheritance_conflict_checks returns None, not an empty list and
\* not an error, when dml_stmts is empty, when no pair of candidate types
\* shares an ancestor besides BaseObject, and when no clause is left.
C21_NothingToDoIsNotAnError ==
    /\ (/\ call.op = "compile_insert_unless_conflict"
        /\ \A k \in Keys \ {"px_id"} : ~EnforcedInLineage(k))
       => /\ ret.kind = "ok"
          /\ ret.type_maps = <<>>
          /\ ret.clause.frags = <<>>
    /\ Checked =>
          /\ SeenByCall = {} => ret.kind = "None"
          /\ (\A i \in SeenByCall : \A pr \in CandidatePairs(i) :
                  SharedAncestors(pr[1], pr[2]) = {}) => ret.kind = "None"
          /\ (~Raised(ret) /\ ret.clauses = {}) => ret.kind = "None"
          /\ ret.kind = "ok" => ret.clauses # {}
          /\ ret.kind = "None" => ret.clauses = {}

\* C21 witness: the pair shares an ancestor that enforces a constraint,
\* every select came out empty, and the check returned None
C21_Witness ==
    /\ Checked
    /\ ret.kind = "None"
    /\ \E tr \in ret.modified_ancestors :
          \E k \in Keys \ {"px_id"} :
              /\ HasConstr(schema, k, tr[2])
              /\ _constr_matters(schema, Constr(k, tr[2]))

\* two statements on types that share BaseObject only
C21_WitnessUnrelated ==
    /\ Checked
    /\ SeenByCall # {}
    /\ \E i \in SeenByCall : CandidatePairs(i) # {}
    /\ \A i \in SeenByCall : \A pr \in CandidatePairs(i) :
          SharedAncestors(pr[1], pr[2]) = {}
    /\ ret.kind = "None"

\* an implicit check of a type that carries a delegated constraint only
C21_WitnessImplicit ==
    /\ call.op = "compile_insert_unless_conflict"
    /\ \E k \in Keys \ {"px_id"} : HasConstr(schema, k, call.typ)
    /\ \A k \in Keys \ {"px_id"} : ~EnforcedInLineage(k)
    /\ ret.kind = "ok"
    /\ ret.clause.frags = <<>>

\* the nearest of the ancestors x and y share, BaseObject left out
NearestShared(x, y) ==
    {a \in SharedAncestors(x, y) :
        ~\E b \in SharedAncestors(x, y) : a \in ancestors(schema, b)}

\* C22: the triples recorded by compile_inheritance_conflict_checks are,
\* for every statement of dml_stmts and every pair of a candidate type of
\* the checked statement and a candidate type of that statement, neither
\* a view and not the same type written by two statements that are not
\* updates, the nearest common ancestors of the pair other than
\* BaseObject; no triple holds a view or BaseObject.
C22_TriplesExactly ==
    Checked =>
        /\ ret.modified_ancestors =
              UNION {UNION {{<<pr[1], a, i>> : a \in NearestShared(pr[1], pr[2])} :
                               pr \in CandidatePairs(i)} : i \in SeenByCall}
        /\ \A tr \in ret.modified_ancestors :
              /\ tr[1] \notin schema.views \cup {BaseObject}
              /\ tr[2] \notin schema.views \cup {BaseObject}

\* C22 witness: a pair with two nearest common ancestors, checked for an
\* update one of whose candidate types is a view
C22_Witness ==
    /\ Checked
    /\ call.stmt.kind = "update"
    /\ CurrentCandidates \cap schema.views # {}
    /\ \E t1 \in ret.modified_ancestors, t2 \in ret.modified_ancestors :
          t1[1] = t2[1] /\ t1[3] = t2[3] /\ t1[2] # t2[2]

\* an insert after an insert into the same type: the pair is skipped
C22_WitnessSameType ==
    /\ Checked
    /\ Len(dml_stmts) = 2
    /\ dml_stmts[1].kind = "insert"
    /\ call.stmt.kind = "insert"
    /\ dml_stmts[1].typ = call.typ
    /\ SharedAncestors(call.typ, call.typ) # {}
    /\ ret.modified_ancestors = {}

\* an earlier update through a view: the type the view derives from and
\* its subtypes are the candidates
C22_WitnessView ==
    /\ Checked
    /\ \E i \in SeenByCall :
          /\ dml_stmts[i].typ \in schema.views
          /\ \E tr \in ret.modified_ancestors : tr[3] = i

(***************************************************************************)
(* SpecClosure: the worklist of _compile_conflict_select, step by step,    *)
(* over schemas whose computed pointers may refer to each other            *)
(***************************************************************************)
ClosurePtrs == {"name", "tag", "full"}

\* an expression that reads the pointers R of the subject
ExprOver(R) ==
    FunctionCall("tuple",
        [i \in DOMAIN SetToSeqBy(R, PtrOrder) |->
            PartialPtr(SetToSeqBy(R, PtrOrder)[i])])

\* every way of making at most MaxDecls pointers computed
ClosureExprs ==
    {f \in [ClosurePtrs -> {NoExpr} \cup {ExprOver(R) : R \in SUBSET ClosurePtrs}] :
        Cardinality({q \in ClosurePtrs : f[q].k # "none"}) <= MaxDecls}

\* Pointer.get_expr under schema s
get_expr_of(s, p) == s.exprs[p]

\* the loop is stopped after this many pointers, one more than there are
MaxPops == Cardinality(ClosurePtrs) + 1

\* a slip: a referenced pointer is queued even when it is already needed
new_refs_unchecked(expr, needed_ptrs) == find_subject_ptrs(expr)

\* lines 82-83: the referenced pointers not yet needed
new_refs(expr, needed_ptrs) == find_subject_ptrs(expr) \ needed_ptrs

\* lines 73-75: the state of the loop when it is entered
worklist_start(wl) ==
    [kind |-> "running", wl |-> wl, needed_ptrs |-> Range(wl),
     ptr_anchors |-> <<>>, popped |-> <<>>]

\* lines 77-85: one turn of the loop for the pointer popped; added is the
\* order in which the new references are met
worklist_step(st, expr, added) ==
    IF expr.k # "none"
    THEN [st EXCEPT !.wl = SubSeq(st.wl, 1, Len(st.wl) - 1) \o added,
                    !.needed_ptrs = st.needed_ptrs \cup Range(added),
                    !.ptr_anchors = Put(st.ptr_anchors, st.wl[Len(st.wl)], expr),
                    !.popped = Append(st.popped, st.wl[Len(st.wl)])]
    ELSE [st EXCEPT !.wl = SubSeq(st.wl, 1, Len(st.wl) - 1),
                    !.popped = Append(st.popped, st.wl[Len(st.wl)])]

InitClosure ==
    /\ schema \in {[bases |-> HFlat, views |-> {}, decl |-> NoDecl, exprs |-> f] :
                      f \in ClosureExprs}
    /\ dml_stmts = <<>>
    /\ call = NoCall
    /\ ret = NoRet
    /\ emitted = {}

\* lines 67-75: the pointers the constraints need, listed in some order
StartWorklist(needed0, wl) ==
    /\ call.op = "none"
    /\ wl \in Perms(SetToSeqBy(needed0, PtrOrder))
    /\ call' = [op |-> "worklist", needed_ptrs |-> needed0]
    /\ ret' = worklist_start(wl)
    /\ UNCHANGED <<schema, dml_stmts, emitted>>

\* lines 76-85: `while wl`, one pointer popped
PopPointer ==
    /\ call.op = "worklist"
    /\ ret.kind = "running"
    /\ ret.wl # <<>>
    /\ Len(ret.popped) < MaxPops
    /\ \E added \in Perms(SetToSeqBy(
                      new_refs(get_expr_of(schema, ret.wl[Len(ret.wl)]),
                               ret.needed_ptrs), PtrOrder)) :
          ret' = worklist_step(ret, get_expr_of(schema, ret.wl[Len(ret.wl)]), added)
    /\ UNCHANGED <<schema, dml_stmts, call, emitted>>

\* line 76: the list is empty and the loop is left
ExitWorklist ==
    /\ call.op = "worklist"
    /\ ret.kind = "running"
    /\ ret.wl = <<>>
    /\ ret' = [ret EXCEPT !.kind = "done"]
    /\ UNCHANGED <<schema, dml_stmts, call, emitted>>

NextClosure ==
    \/ \E needed0 \in SUBSET ClosurePtrs :
          \E wl \in Perms(SetToSeqBy(needed0, PtrOrder)) : StartWorklist(needed0, wl)
    \/ PopPointer
    \/ ExitWorklist

\* the loop is sequential code: a turn that can be taken is taken
SpecClosure ==
    InitClosure /\ [][NextClosure]_vars
        /\ WF_vars(PopPointer) /\ WF_vars(ExitWorklist)

RECURSIVE LeastClosed(_)
\* the least set that holds S and, with a computed pointer, the pointers
\* its defining expression reads
LeastClosed(S) ==
    IF \A q \in S : find_subject_ptrs(get_expr_of(schema, q)) \subseteq S THEN S
    ELSE LeastClosed(S \cup UNION {find_subject_ptrs(get_expr_of(schema, q)) : q \in S})

\* some computed pointers read each other in a cycle
CyclicExprs ==
    \E q \in ClosurePtrs :
        \E r \in find_subject_ptrs(get_expr_of(schema, q)) :
            q \in LeastClosed({r})

\* no pointer is popped twice, the loop is never cut short, and when it
\* is left needed_ptrs is the least closed set, every pointer of which was
\* popped and every computed pointer of which has its expression as anchor
WorklistSafe ==
    call.op = "worklist" =>
        /\ \A i, j \in DOMAIN ret.popped : ret.popped[i] = ret.popped[j] => i = j
        /\ ret.wl # <<>> => Len(ret.popped) < Cardinality(ClosurePtrs)
        /\ ret.kind = "done" =>
              /\ ret.needed_ptrs = LeastClosed(call.needed_ptrs)
              /\ Range(ret.popped) = ret.needed_ptrs
              /\ DOMAIN ret.ptr_anchors =
                    {q \in ret.needed_ptrs : get_expr_of(schema, q).k # "none"}
              /\ (\A q \in ClosurePtrs : get_expr_of(schema, q) = get_expr(q))
                    => /\ ret.needed_ptrs = closure_of(call.needed_ptrs).needed_ptrs
                       /\ ret.ptr_anchors = closure_of(call.needed_ptrs).ptr_anchors

\* C23: the worklist ends for every schema, also when computed pointers
\* read each other in a cycle; it pops each pointer at most once; and it
\* leaves needed_ptrs equal to the least set that holds the pointers the
\* constraints name or read and is closed under the references of the
\* defining expressions of its computed pointers.
C23_WorklistEndsAtLeastClosure ==
    /\ []WorklistSafe
    /\ (call.op = "worklist") ~> (ret.kind = "done")

\* C23 witness: computed pointers that read each other, a pointer that was
\* not needed at first, and the loop left
C23_Witness ==
    /\ call.op = "worklist"
    /\ ret.kind = "done"
    /\ CyclicExprs
    /\ \E q \in call.needed_ptrs :
          \E r \in find_subject_ptrs(get_expr_of(schema, q)) :
              r # q /\ q \in find_subject_ptrs(get_expr_of(schema, r))
    /\ ret.needed_ptrs # call.needed_ptrs

\* C24 as stated: in the list one check returns no two clauses have the
\* same constraint and the same else_fail statement.
C24_Original_OneClausePerConstraintAndStatement ==
    Checked =>
        \A e1, e2 \in ret.clauses :
            (/\ e1.clause.constraint = e2.clause.constraint
             /\ e1.clause.else_fail = e2.clause.else_fail) => e1 = e2

\* C24, amended: in the list one check returns no two clauses have the
\* same constraint, the same else_fail statement and the same candidate
\* type of the checked statement; so the check of an insert, which has one
\* candidate type, returns at most one clause for a constraint and a
\* statement, also when that statement is an update with subtypes, while
\* the check of an update may return one for each of its candidate types.
C24_OneClausePerConstraintStatementAndType ==
    Checked =>
        /\ \A e1, e2 \in ret.clauses :
              (/\ e1.clause.constraint = e2.clause.constraint
               /\ e1.clause.else_fail = e2.clause.else_fail
               /\ e1.subject_stype = e2.subject_stype) => e1 = e2
        /\ call.stmt.kind = "insert" =>
              \A e1, e2 \in ret.clauses :
                  (/\ e1.clause.constraint = e2.clause.constraint
                   /\ e1.clause.else_fail = e2.clause.else_fail) => e1 = e2
        /\ \A e \in ret.clauses :
              /\ e.subject_stype \in CurrentCandidates
              /\ call.stmt.kind = "update" =>
                    e.clause.update_query_set = e.subject_stype

\* C24 witness: an insert checked against an earlier update; two pairs of
\* candidate types lead to the same ancestor, which gave one clause
C24_Witness ==
    /\ Checked
    /\ call.stmt.kind = "insert"
    /\ \E e \in ret.clauses :
          /\ dml_stmts[e.clause.else_fail].kind = "update"
          /\ Cardinality({pr \in CandidatePairs(e.clause.else_fail) :
                             e.anc_type \in NearestShared(pr[1], pr[2])}) >= 2

\* an update checked against an earlier insert: the same constraint and
\* statement for two of its candidate types
C24_WitnessUpdate ==
    /\ Checked
    /\ call.stmt.kind = "update"
    /\ \E e1, e2 \in ret.clauses :
          /\ e1.clause.constraint = e2.clause.constraint
          /\ e1.clause.else_fail = e2.clause.else_fail
          /\ dml_stmts[e1.clause.else_fail].kind = "insert"
          /\ e1.subject_stype # e2.subject_stype

====
